---- MODULE Spec2Model ----
(***************************************************************************)
(* A cluster of DistributedNode processes (src/src/node.py): Lamport       *)
(* clock, Ricart-Agrawala mutex with deferral queue, bully election,       *)
(* heartbeat loop, failure detector and the framed transport.  Every node  *)
(* runs a Request() thread, one connection handler thread per sending      *)
(* peer, a heartbeat loop and the threads of its election rounds.  Time is *)
(* abstracted: a sleep may end, and a timeout may fire, at any moment.     *)
(***************************************************************************)
EXTENDS Integers, Sequences, FiniteSets, TLC

\* ---------------------------------------------------------------- bounds
MaxRequests == 2        \* Request() calls, cluster-wide, in the largest cluster
MaxCrashes == 1         \* processes that die
MaxRequestsReliable == 3 \* Request() calls in the runs without failures
NumThreads == 2         \* threads of one node using its clock at once
MaxClockOps == 4        \* tick()/update_clock() calls of those threads
MaxStamp == 2           \* largest timestamp handed to update_clock() by them
FullRequests == 2       \* Request() calls in the runs of the whole node
FullElects == 2         \* `elect` commands and start-up elections in those runs
FullRounds == 2         \* election rounds started in those runs
FullBeats == 1          \* heartbeat broadcasts in those runs
FullStales == 1         \* times a heartbeat goes overdue in those runs
FullTimeouts == 1       \* waits for replies that time out in those runs
ShutdownCalls == 2      \* shutdown() calls in the runs with shutdown
MaxUnknown == 1         \* frames of unknown type in the runs with such frames
ElectionElects == 1     \* `elect` commands in the runs of the election alone
ElectionRounds == 8     \* election rounds started in those runs
ElectionBeats == 8      \* heartbeat broadcasts in those runs
ElectionStales == 8     \* times a heartbeat goes overdue in those runs

\* The node ids of the largest peers file, and the peers files a cluster is
\* started from.  A smaller cluster is given two more Request() calls.
Nodes == {1, 2, 3}
PeerTables == {{1}, {1, 2}, {1, 2, 3}}
ReqQuota(P) == IF P = Nodes THEN MaxRequests ELSE MaxRequests + 2
None == 0

VARIABLES
    peers,                  \* the peers table every node was started with
    alive,                  \* process is running
    lamport_clock,
    state,
    request_clock,
    replies_received,
    deferred_replies,
    received_replies_event,
    shared_counter,
    mutex_lock,             \* "free", or the thread holding it
    dead_nodes,
    peer_connections,       \* peers with a pooled outbound socket
    net,                    \* frames in flight, one FIFO per connection
    pc,                     \* position of the node's Request() thread
    toSend,                 \* peers the Request() loop still has to send to
    hstate,                 \* handler thread of each inbound connection: where it is,
                            \* and (history) the request_clock of the REQUEST it
                            \* answers and the node's state when it decided to
    coordinator_id,         \* election_state.coordinator_id, None when unset
    in_progress,            \* election_state.in_progress
    received_answer,        \* election_state.received_answer
    hb_fresh,               \* election_state.last_heartbeat is within the timeout
    ethreads,               \* threads inside start_election()'s sleep ("sleep") and
                            \* deadline tasks in their first and second sleep
    hbpc,                   \* position of the heartbeat loop
    quota,                  \* what the environment may still do
    wronglyDead,            \* history: a running peer was put in some dead_nodes
    leader_update_logged,   \* history: the node's last COORDINATOR dispatch logged
                            \* LEADER_UPDATE
    deferred_rc,            \* history: request_clock of each deferred REQUEST
    clock_lock,             \* None, or the thread inside `with self.clock_lock`
    thr,                    \* the threads of node ClockNode inside tick()/update_clock()
    frames,                 \* history: timestamps tick() returned, in order of return
    lockers,                \* the threads of node ClockNode by their locks: the lock
                            \* operations of the call a thread is in that are still to
                            \* come, and the locks it holds, in order of acquisition
    running,                \* self.running
    shutdown_events,        \* number of "Node shutdown complete." events logged
    link                    \* each connection's receiving end: "open", "closed" by the
                            \* receiver (the sender has not noticed), or "reset" (the
                            \* sender's next write fails)

envVars == <<peers, alive, running, shutdown_events>>
commVars == <<lamport_clock, net, dead_nodes, peer_connections, link, received_replies_event,
              link>>
mutexVars == <<state, request_clock, replies_received, deferred_replies, deferred_rc,
               shared_counter, mutex_lock, pc, toSend>>
electVars == <<coordinator_id, in_progress, received_answer, hb_fresh, ethreads, hbpc>>
thrVars == <<clock_lock, thr, frames, lockers>>

vars == <<envVars, commVars, mutexVars, electVars, thrVars, hstate, quota, wronglyDead,
          leader_update_logged>>

Threads == 1..NumThreads
ClockNode == 1

Peers(n) == peers \ {n}
Chan == {c \in Nodes \X Nodes : c[1] # c[2]}

Max(a, b) == IF a >= b THEN a ELSE b

\* The ids of a set in ascending order: the order `for pid in self.peers`
\* visits a peers file written in id order.
RECURSIVE Ascending(_)
Ascending(S) ==
    IF S = {} THEN <<>>
    ELSE LET x == CHOOSE y \in S : \A z \in S : y <= z
         IN  <<x>> \o Ascending(S \ {x})

\* ------------------------------------------------------- Lamport clock
\* tick(), lines 148-150: the clock after its += 1
tick(clk) == clk + 1

\* update_clock() that ignores the received time
update_clock_own(clk, received_time) == clk + 1

\* update_clock(received_time), lines 153-155
update_clock(clk, received_time) == Max(clk, received_time) + 1

\* ------------------------------------------------------------ mutex helpers
\* _expected_replies(), lines 157-158, on a given dead set
_expected_replies(dead) == Max(0, Cardinality(peers) - 1 - Cardinality(dead))

\* _maybe_signal_replies_complete() that is content with one reply
_maybe_signal_first_reply(ev, replies, dead) ==
    IF Cardinality(replies) >= 1 THEN TRUE ELSE ev

\* _maybe_signal_replies_complete(), lines 546-548: the event afterwards
_maybe_signal_replies_complete(ev, replies, dead) ==
    IF Cardinality(replies) >= _expected_replies(dead) THEN TRUE ELSE ev

\* handle_request that defers only while WANTED with priority
my_priority_higher_not_held(st, rc, me, sender, sender_clock) ==
    /\ st = "WANTED"
    /\ \/ rc < sender_clock
       \/ (rc = sender_clock /\ me < sender)

\* handle_request's decision to defer, lines 353-359
my_priority_higher(st, rc, me, sender, sender_clock) ==
    \/ st = "HELD"
    \/ /\ st = "WANTED"
       /\ \/ rc < sender_clock
          \/ (rc = sender_clock /\ me < sender)

\* ------------------------------------------------------------ transport
\* The JSON object of send_message, lines 217-222.  rc and deferred are history,
\* not on the wire: rc is the request_clock of the episode a REQUEST belongs to
\* (for a REPLY: of the REQUEST it answers), deferred marks a REPLY sent by
\* exit_critical_section.
Frame(type, sender, ts, g) ==
    [type |-> type, sender |-> sender, timestamp |-> ts,
     rc |-> g.rc, deferred |-> g.deferred]

NoHist == [rc |-> 0, deferred |-> FALSE]

\* The part of a node's state a send reads and writes, threaded through the
\* sends of one step.  stuck: the sending thread is blocked on mutex_lock.
Ctx(n) == [clk |-> lamport_clock[n], net |-> net, dead |-> dead_nodes[n],
           conn |-> peer_connections[n], ev |-> received_replies_event[n],
           link |-> link, stuck |-> FALSE]

\* The receiving end of the connection from s to d, given the links l: a
\* handler that left its loop has closed its socket (line 258).
Link(l, d, s) ==
    IF hstate[d][s].pc = "exited" /\ l[<<s, d>>] = "open" THEN "closed"
    ELSE l[<<s, d>>]

\* send_message() that suppresses nothing
suppressed_never(type, target, dead) == FALSE

\* send_message(), line 214: a HEARTBEAT to a peer marked dead is not sent
suppressed(type, target, dead) == type = "HEARTBEAT" /\ target \in dead

\* send_message(target_id, msg_type) by node n, lines 208-238, with
\* _try_send and _get_connection (lines 161-206).  A write on a pooled socket
\* whose other end is open reaches the peer; one on a socket the peer has closed
\* is accepted and lost until the reset is noticed; otherwise the send connects
\* anew, which needs the peer's listener, and fails twice without it.  locked:
\* mutex_lock[n] is held (by the caller itself, or by another thread that never
\* releases it).
send_message(c, n, target, type, locked, g) ==
    IF c.stuck \/ target \notin peers THEN c
    ELSE IF suppressed(type, target, c.dead) THEN c
    ELSE LET ts == tick(c.clk)
             ch == <<n, target>>
             pooled == target \in c.conn
             end == Link(c.link, target, n)
         IN  IF alive[target] /\ pooled /\ end = "open"
             THEN [c EXCEPT !.clk = ts,
                            !.net[ch] = Append(@, Frame(type, n, ts, g))]
             ELSE IF alive[target] /\ pooled /\ end = "closed"
             THEN [c EXCEPT !.clk = ts]
             ELSE IF alive[target] /\ running[target]
             THEN [c EXCEPT !.clk = ts,
                            !.net[ch] = IF end = "open"
                                        THEN Append(@, Frame(type, n, ts, g))
                                        ELSE <<Frame(type, n, ts, g)>>,
                            !.link[ch] = "open",
                            !.dead = @ \ {target},
                            !.conn = @ \cup {target}]
             ELSE IF target \in c.dead
             THEN [c EXCEPT !.clk = ts, !.conn = @ \ {target}]
             ELSE IF locked
             THEN [c EXCEPT !.clk = ts, !.conn = @ \ {target},
                            !.dead = @ \cup {target}, !.stuck = TRUE]
             ELSE [c EXCEPT !.clk = ts, !.conn = @ \ {target},
                            !.dead = @ \cup {target},
                            !.ev = IF state[n] = "WANTED"
                                   THEN _maybe_signal_replies_complete(
                                            @, replies_received[n], c.dead \cup {target})
                                   ELSE @]

RECURSIVE SendAll(_, _, _, _, _, _)
\* send_message to each target of a sequence, in order; gs: the history
\* fields of each frame
SendAll(c, n, targets, type, locked, gs) ==
    IF targets = <<>> THEN c
    ELSE SendAll(send_message(c, n, Head(targets), type, locked, Head(gs)),
                 n, Tail(targets), type, locked, Tail(gs))

\* send_message of one type to each target, no history
Broadcast(c, n, targets, type) ==
    SendAll(c, n, targets, type, mutex_lock[n] # "free",
            [i \in 1..Len(targets) |-> NoHist])

\* Writes a context back.
Commit(c, n) ==
    /\ lamport_clock' = [lamport_clock EXCEPT ![n] = c.clk]
    /\ net' = c.net
    /\ dead_nodes' = [dead_nodes EXCEPT ![n] = c.dead]
    /\ peer_connections' = [peer_connections EXCEPT ![n] = c.conn]
    /\ received_replies_event' = [received_replies_event EXCEPT ![n] = c.ev]
    /\ link' = c.link

\* ------------------------------------------------------------------ Init
HIdle == [pc |-> "idle", rc |-> 0, st |-> "none"]
HExited == [pc |-> "exited", rc |-> 0, st |-> "none"]

\* handle_client_connection(), line 245: `while self.running` after a dispatch;
\* the thread reads the next frame, or leaves the loop and closes the socket
read_next(d) == IF running[d] THEN HIdle ELSE HExited

\* run_heartbeat_loop(), line 506: `while self.running` after a turn
next_turn(n) == IF running[n] THEN "idle" ELSE "stopped"
HBlocked == [pc |-> "blocked", rc |-> 0, st |-> "none"]
HElect == [pc |-> "elect", rc |-> 0, st |-> "none"]
ThrIdle == [pc |-> "idle", op |-> "none", arg |-> 0, reg |-> 0, wrote |-> 0]
NoThreads == [sleep |-> 0, wait1 |-> 0, wait2 |-> 0]

\* DistributedNode.__init__, lines 113-145, for every node of the peers file
InitNodes ==
    /\ peers \in PeerTables
    /\ alive = [n \in Nodes |-> n \in peers]
    /\ lamport_clock = [n \in Nodes |-> 0]
    /\ state = [n \in Nodes |-> "RELEASED"]
    /\ request_clock = [n \in Nodes |-> 0]
    /\ replies_received = [n \in Nodes |-> {}]
    /\ deferred_replies = [n \in Nodes |-> <<>>]
    /\ received_replies_event = [n \in Nodes |-> FALSE]
    /\ shared_counter = [n \in Nodes |-> 0]
    /\ mutex_lock = [n \in Nodes |-> "free"]
    /\ dead_nodes = [n \in Nodes |-> {}]
    /\ peer_connections = [n \in Nodes |-> {}]
    /\ net = [c \in Chan |-> <<>>]
    /\ pc = [n \in Nodes |-> "idle"]
    /\ toSend = [n \in Nodes |-> {}]
    /\ hstate = [n \in Nodes |-> [s \in Nodes \ {n} |-> HIdle]]
    /\ coordinator_id = [n \in Nodes |-> None]
    /\ in_progress = [n \in Nodes |-> FALSE]
    /\ received_answer = [n \in Nodes |-> FALSE]
    /\ hb_fresh = [n \in Nodes |-> TRUE]
    /\ ethreads = [n \in Nodes |-> NoThreads]
    /\ hbpc = [n \in Nodes |-> "idle"]
    /\ wronglyDead = FALSE
    /\ leader_update_logged = [n \in Nodes |-> FALSE]
    /\ deferred_rc = [n \in Nodes |-> <<>>]
    /\ clock_lock = None
    /\ thr = [t \in Threads |-> ThrIdle]
    /\ frames = <<>>
    /\ lockers = [t \in Threads |-> [todo |-> <<>>, held |-> <<>>]]
    /\ running = [n \in Nodes |-> TRUE]
    /\ shutdown_events = [n \in Nodes |-> 0]
    /\ link = [c \in Chan |-> "open"]

NoQuota == [req |-> 0, timeout |-> 0, crash |-> 0, ops |-> 0, elect |-> 0,
            round |-> 0, beat |-> 0, stale |-> 0, shutdown |-> 0, unknown |-> 0,
            startup |-> {}]

Init ==
    /\ InitNodes
    /\ quota = [NoQuota EXCEPT !.req = ReqQuota(peers), !.timeout = ReqQuota(peers),
                               !.crash = MaxCrashes]

\* ------------------------------------------------ Ricart-Agrawala mutex
\* request_critical_section that starts unless the section is held
may_start_unless_held(st) == st # "HELD"

\* request_critical_section(), line 296: the call goes on
may_start(st) == st = "RELEASED"

\* request_critical_section() that always takes the REQUEST round
no_reply_expected_never(dead) == FALSE

\* request_critical_section(), lines 302 and 311: the episode needs no REPLY
no_reply_expected(dead) == _expected_replies(dead) = 0

\* request_critical_section() that keeps the signal of the previous episode
clear_kept(ev) == ev

\* request_critical_section(), line 301: received_replies_event.clear()
clear(ev) == FALSE

\* request_critical_section(), lines 295-303 (and 311-313 when no reply is
\* expected): the operator types Request().
RequestCS(n) ==
    /\ alive[n]
    /\ running[n]
    /\ mutex_lock[n] = "free"
    /\ quota.req > 0
    /\ quota' = [quota EXCEPT !.req = @ - 1]
    /\ IF ~may_start(state[n])
       THEN UNCHANGED <<envVars, commVars, mutexVars, electVars, thrVars, hstate,
                        wronglyDead, leader_update_logged>>
       ELSE /\ state' = [state EXCEPT ![n] = "WANTED"]
            /\ lamport_clock' = [lamport_clock EXCEPT ![n] = tick(@)]
            /\ request_clock' = [request_clock EXCEPT ![n] = tick(lamport_clock[n])]
            /\ replies_received' = [replies_received EXCEPT ![n] = {}]
            /\ received_replies_event' = [received_replies_event EXCEPT ![n] = clear(@)]
            /\ pc' = [pc EXCEPT ![n] = IF no_reply_expected(dead_nodes[n])
                                       THEN "enter" ELSE "snapshot"]
            /\ UNCHANGED <<envVars, electVars, thrVars, hstate, wronglyDead, leader_update_logged,
                           deferred_replies, deferred_rc, shared_counter, mutex_lock,
                           dead_nodes, peer_connections, link, net, toSend>>

\* request_critical_section(), line 315: dead_snapshot for the REQUEST loop
Snapshot(n) ==
    /\ alive[n]
    /\ pc[n] = "snapshot"
    /\ toSend' = [toSend EXCEPT ![n] = Peers(n) \ dead_nodes[n]]
    /\ pc' = [pc EXCEPT ![n] = IF Peers(n) \ dead_nodes[n] = {}
                               THEN "waiting" ELSE "sending"]
    /\ UNCHANGED <<envVars, commVars, electVars, thrVars, hstate, quota, wronglyDead, leader_update_logged,
                   state, request_clock, replies_received, deferred_replies,
                   deferred_rc, shared_counter, mutex_lock>>

\* request_critical_section(), lines 316-318: one turn of the REQUEST loop
SendRequest(n) ==
    /\ alive[n]
    /\ pc[n] = "sending"
    /\ LET p == Head(Ascending(toSend[n]))
           c == send_message(Ctx(n), n, p, "REQUEST", mutex_lock[n] # "free",
                             [rc |-> request_clock[n], deferred |-> FALSE])
       IN  /\ Commit(c, n)
           /\ toSend' = [toSend EXCEPT ![n] = @ \ {p}]
           /\ pc' = [pc EXCEPT ![n] = IF c.stuck THEN "deadlock"
                                      ELSE IF toSend[n] = {p} THEN "waiting"
                                      ELSE "sending"]
    /\ UNCHANGED <<envVars, electVars, thrVars, hstate, quota, wronglyDead, leader_update_logged,
                   state, request_clock, replies_received, deferred_replies,
                   deferred_rc, shared_counter, mutex_lock>>

\* request_critical_section(), lines 320-322: the event was set in time
WaitDone(n) ==
    /\ alive[n]
    /\ pc[n] = "waiting"
    /\ received_replies_event[n]
    /\ pc' = [pc EXCEPT ![n] = "enter"]
    /\ UNCHANGED <<envVars, commVars, electVars, thrVars, hstate, quota, wronglyDead, leader_update_logged,
                   state, request_clock, replies_received, deferred_replies,
                   deferred_rc, shared_counter, mutex_lock, toSend>>

\* request_critical_section(), lines 326-332
missing_peers(n) ==
    {pid \in Peers(n) : pid \notin replies_received[n] /\ pid \notin dead_nodes[n]}

\* request_critical_section(), lines 333-336: the event after the timeout block
TimeoutEvent(n) ==
    IF missing_peers(n) # {}
    THEN _maybe_signal_replies_complete(received_replies_event[n], replies_received[n],
                                        dead_nodes[n] \cup missing_peers(n))
    ELSE received_replies_event[n]

\* request_critical_section(), lines 320, 324-347: the wait timed out
WaitTimeout(n) ==
    /\ alive[n]
    /\ pc[n] = "waiting"
    /\ ~received_replies_event[n]
    /\ mutex_lock[n] = "free"
    /\ quota.timeout > 0
    /\ quota' = [quota EXCEPT !.timeout = @ - 1]
    /\ dead_nodes' = [dead_nodes EXCEPT ![n] = @ \cup missing_peers(n)]
    /\ received_replies_event' = [received_replies_event EXCEPT ![n] = TimeoutEvent(n)]
    /\ wronglyDead' = (wronglyDead \/ \E p \in missing_peers(n) : alive[p])
    /\ IF TimeoutEvent(n)
       THEN /\ pc' = [pc EXCEPT ![n] = "enter"]
            /\ UNCHANGED state
       ELSE /\ pc' = [pc EXCEPT ![n] = "idle"]
            /\ state' = [state EXCEPT ![n] = "RELEASED"]
    /\ UNCHANGED <<envVars, electVars, thrVars, hstate, leader_update_logged,
                   lamport_clock, net, peer_connections, link,
                   request_clock, replies_received, deferred_replies, deferred_rc,
                   shared_counter, mutex_lock, toSend>>

\* enter_critical_section() that writes the counter back as it read it
after_value_same(before_value) == before_value

\* enter_critical_section(), lines 386-387: the counter after the increment
after_value(before_value) == before_value + 1

\* enter_critical_section(), lines 376-406
EnterCS(n) ==
    /\ alive[n]
    /\ pc[n] = "enter"
    /\ mutex_lock[n] = "free"
    /\ state' = [state EXCEPT ![n] = "HELD"]
    /\ shared_counter' = [shared_counter EXCEPT ![n] = after_value(@)]
    /\ pc' = [pc EXCEPT ![n] = "cs"]
    /\ UNCHANGED <<envVars, commVars, electVars, thrVars, hstate, quota, wronglyDead, leader_update_logged,
                   request_clock, replies_received, deferred_replies, deferred_rc,
                   mutex_lock, toSend>>

\* exit_critical_section(), lines 409-414: the sends are made holding mutex_lock
ExitCS(n) ==
    /\ alive[n]
    /\ pc[n] = "cs"
    /\ mutex_lock[n] = "free"
    /\ LET gs == [i \in 1..Len(deferred_rc[n]) |->
                       [rc |-> deferred_rc[n][i], deferred |-> TRUE]]
           c == SendAll(Ctx(n), n, deferred_replies[n], "REPLY", TRUE, gs)
       IN  /\ Commit(c, n)
           /\ state' = [state EXCEPT ![n] = "RELEASED"]
           /\ IF c.stuck
              THEN /\ pc' = [pc EXCEPT ![n] = "deadlock"]
                   /\ mutex_lock' = [mutex_lock EXCEPT ![n] = "request"]
                   /\ UNCHANGED <<deferred_replies, deferred_rc>>
              ELSE /\ pc' = [pc EXCEPT ![n] = "idle"]
                   /\ deferred_replies' = [deferred_replies EXCEPT ![n] = <<>>]
                   /\ deferred_rc' = [deferred_rc EXCEPT ![n] = <<>>]
                   /\ UNCHANGED mutex_lock
    /\ UNCHANGED <<envVars, electVars, thrVars, hstate, quota, wronglyDead, leader_update_logged,
                   request_clock, replies_received, shared_counter, toSend>>

\* handle_request(sender, sender_clock), lines 351-364, by the handler of the
\* connection from s, after process_message's lines 279-281 gave context c
handle_request(c, d, s, m) ==
    /\ Commit(c, d)
    /\ IF mutex_lock[d] # "free"
       THEN /\ hstate' = [hstate EXCEPT ![d][s] = HBlocked]
            /\ UNCHANGED <<deferred_replies, deferred_rc>>
       ELSE IF my_priority_higher(state[d], request_clock[d], d, m.sender, m.timestamp)
       THEN /\ deferred_replies' = [deferred_replies EXCEPT ![d] = Append(@, m.sender)]
            /\ deferred_rc' = [deferred_rc EXCEPT ![d] = Append(@, m.rc)]
            /\ hstate' = [hstate EXCEPT ![d][s] = read_next(d)]
       ELSE /\ hstate' = [hstate EXCEPT ![d][s] =
                              [pc |-> "reply", rc |-> m.rc, st |-> state[d]]]
            /\ UNCHANGED <<deferred_replies, deferred_rc>>
    /\ UNCHANGED <<electVars, replies_received, leader_update_logged>>

\* handle_reply(sender), lines 369-372
handle_reply(c, d, s, m) ==
    /\ IF mutex_lock[d] # "free"
       THEN /\ Commit(c, d)
            /\ hstate' = [hstate EXCEPT ![d][s] = HBlocked]
            /\ UNCHANGED replies_received
       ELSE /\ Commit([c EXCEPT !.ev = _maybe_signal_replies_complete(
                                           @, replies_received[d] \cup {m.sender}, c.dead)],
                      d)
            /\ replies_received' = [replies_received EXCEPT ![d] = @ \cup {m.sender}]
            /\ hstate' = [hstate EXCEPT ![d][s] = read_next(d)]
    /\ UNCHANGED <<electVars, deferred_replies, deferred_rc, leader_update_logged>>

\* handle_request(), lines 366-367: the REPLY is sent outside the lock
SendReply(d, s) ==
    /\ alive[d]
    /\ hstate[d][s].pc = "reply"
    /\ LET c == send_message(Ctx(d), d, s, "REPLY", mutex_lock[d] # "free",
                             [rc |-> hstate[d][s].rc, deferred |-> FALSE])
       IN  /\ Commit(c, d)
           /\ hstate' = [hstate EXCEPT ![d][s] = IF c.stuck THEN HBlocked ELSE read_next(d)]
    /\ UNCHANGED <<envVars, mutexVars, electVars, thrVars, quota, wronglyDead, leader_update_logged>>

\* ------------------------------------------------------- bully election
\* start_election(), lines 428-431
higher_nodes(n, dead) == {pid \in peers : pid > n /\ pid \notin dead}

\* become_coordinator() that leaves out the peers marked dead
CoordinatorCtx_live(c, n) ==
    Broadcast([c EXCEPT !.clk = tick(@)], n, Ascending(Peers(n) \ c.dead), "COORDINATOR")

\* become_coordinator(), lines 485-490: the log's tick and the broadcast
CoordinatorCtx(c, n) ==
    Broadcast([c EXCEPT !.clk = tick(@)], n, Ascending(Peers(n)), "COORDINATOR")

\* start_election(), lines 424-437: the log's tick and the sends of a round
RoundCtx(c, n) ==
    LET c1 == [c EXCEPT !.clk = tick(@)]
    IN  IF higher_nodes(n, c.dead) = {}
        THEN CoordinatorCtx(c1, n)
        ELSE Broadcast(c1, n, Ascending(higher_nodes(n, c.dead)), "ELECTION")

\* become_coordinator(), lines 482-490, by a thread of node n; ra and th are
\* received_answer and the election threads of n as the caller leaves them
become_coordinator(c, n, ra, th) ==
    /\ Commit(c, n)
    /\ coordinator_id' = [coordinator_id EXCEPT ![n] = n]
    /\ in_progress' = [in_progress EXCEPT ![n] = FALSE]
    /\ received_answer' = [received_answer EXCEPT ![n] = ra]
    /\ ethreads' = [ethreads EXCEPT ![n] = th]

\* start_election(), lines 422-438, after its sleep; th: the election threads
\* of n without the caller
start_round(n, th) ==
    /\ quota.round > 0
    /\ quota' = [quota EXCEPT !.round = @ - 1]
    /\ LET c == RoundCtx(Ctx(n), n)
       IN  IF higher_nodes(n, dead_nodes[n]) = {}
           THEN become_coordinator(c, n, FALSE, th)
           ELSE /\ Commit(c, n)
                /\ in_progress' = [in_progress EXCEPT ![n] = TRUE]
                /\ received_answer' = [received_answer EXCEPT ![n] = FALSE]
                /\ ethreads' = [ethreads EXCEPT ![n] =
                       IF c.stuck THEN th ELSE [th EXCEPT !.wait1 = @ + 1]]
                /\ UNCHANGED coordinator_id

\* The operator types `elect` (line 596), or main() finds no coordinator after
\* its start-up wait (lines 625-626): start_election() up to its sleep,
\* lines 419-421.
Elect(n) ==
    /\ alive[n]
    /\ running[n]
    /\ quota.elect > 0
    /\ quota' = [quota EXCEPT !.elect = @ - 1]
    /\ ethreads' = [ethreads EXCEPT ![n].sleep = IF in_progress[n] THEN @ ELSE @ + 1]
    /\ UNCHANGED <<envVars, commVars, mutexVars, thrVars, hstate, wronglyDead, leader_update_logged,
                   coordinator_id, in_progress, received_answer, hb_fresh, hbpc>>

\* start_election(), lines 422-438, by a thread of its own
ElectionThread(n) ==
    /\ alive[n]
    /\ ethreads[n].sleep > 0
    /\ start_round(n, [ethreads[n] EXCEPT !.sleep = @ - 1])
    /\ UNCHANGED <<envVars, mutexVars, thrVars, hstate, wronglyDead, leader_update_logged, hb_fresh, hbpc>>

\* start_election(), lines 422-438, by a connection handler (from line 465)
HandlerElect(d, s) ==
    /\ alive[d]
    /\ hstate[d][s].pc = "elect"
    /\ start_round(d, ethreads[d])
    /\ hstate' = [hstate EXCEPT ![d][s] =
                      IF RoundCtx(Ctx(d), d).stuck THEN HBlocked ELSE read_next(d)]
    /\ UNCHANGED <<envVars, mutexVars, thrVars, wronglyDead, leader_update_logged, hb_fresh, hbpc>>

\* _wait_for_election_result(), lines 441-446 and 455-456: the first sleep ends
DeadlineFirst(n) ==
    /\ alive[n]
    /\ ethreads[n].wait1 > 0
    /\ LET th == [ethreads[n] EXCEPT !.wait1 = @ - 1]
       IN  IF ~in_progress[n]
           THEN /\ ethreads' = [ethreads EXCEPT ![n] = th]
                /\ UNCHANGED <<commVars, coordinator_id, in_progress, received_answer>>
           ELSE IF received_answer[n]
           THEN /\ ethreads' = [ethreads EXCEPT ![n] = [th EXCEPT !.wait2 = @ + 1]]
                /\ UNCHANGED <<commVars, coordinator_id, in_progress, received_answer>>
           ELSE become_coordinator(CoordinatorCtx(Ctx(n), n), n, received_answer[n], th)
    /\ UNCHANGED <<envVars, mutexVars, thrVars, hstate, quota, wronglyDead, leader_update_logged,
                   hb_fresh, hbpc>>

\* _wait_for_election_result(), lines 446-454 and start_election's line 419:
\* the second sleep ends
DeadlineSecond(n) ==
    /\ alive[n]
    /\ ethreads[n].wait2 > 0
    /\ LET th == [ethreads[n] EXCEPT !.wait2 = @ - 1]
       IN  IF in_progress[n]
           THEN /\ in_progress' = [in_progress EXCEPT ![n] = FALSE]
                /\ ethreads' = [ethreads EXCEPT ![n] = [th EXCEPT !.sleep = @ + 1]]
           ELSE /\ ethreads' = [ethreads EXCEPT ![n] = th]
                /\ UNCHANGED in_progress
    /\ UNCHANGED <<envVars, commVars, mutexVars, thrVars, hstate, quota, wronglyDead, leader_update_logged,
                   coordinator_id, received_answer, hb_fresh, hbpc>>

\* handle_election(sender), lines 458-465, up to start_election's sleep
handle_election(c, d, s, m) ==
    /\ LET type == IF coordinator_id[d] = d THEN "COORDINATOR" ELSE "ANSWER"
           c2 == send_message(c, d, m.sender, type, mutex_lock[d] # "free", NoHist)
       IN  /\ Commit(c2, d)
           /\ hstate' = [hstate EXCEPT ![d][s] =
                  IF c2.stuck THEN HBlocked
                  ELSE IF coordinator_id[d] # d /\ ~in_progress[d] THEN HElect
                  ELSE read_next(d)]
    /\ UNCHANGED <<mutexVars, electVars, leader_update_logged>>

\* handle_answer(sender), lines 467-468
handle_answer(c, d, s, m) ==
    /\ Commit(c, d)
    /\ received_answer' = [received_answer EXCEPT ![d] = TRUE]
    /\ hstate' = [hstate EXCEPT ![d][s] = read_next(d)]
    /\ UNCHANGED <<mutexVars, coordinator_id, in_progress, hb_fresh,
                   ethreads, hbpc, leader_update_logged>>

\* handle_coordinator() that never returns early
leader_changed_always(old, sender) == TRUE

\* handle_coordinator(), lines 474-475: no early return, the leader changes
leader_changed(old, sender) == old # sender

\* handle_coordinator(sender), lines 470-480
handle_coordinator(c, d, s, m) ==
    /\ Commit(c, d)
    /\ in_progress' = [in_progress EXCEPT ![d] = FALSE]
    /\ hb_fresh' = [hb_fresh EXCEPT ![d] = TRUE]
    /\ coordinator_id' = [coordinator_id EXCEPT ![d] =
                              IF leader_changed(@, m.sender) THEN m.sender ELSE @]
    /\ leader_update_logged' = [leader_update_logged EXCEPT ![d] =
                                    leader_changed(coordinator_id[d], m.sender)]
    /\ hstate' = [hstate EXCEPT ![d][s] = read_next(d)]
    /\ UNCHANGED <<mutexVars, received_answer, ethreads, hbpc>>

\* handle_heartbeat() that takes every heartbeat as the coordinator's
from_coordinator_any(cid, sender) == TRUE

\* handle_heartbeat(), line 494: the sender is the coordinator this node knows
from_coordinator(cid, sender) == cid = sender

\* handle_heartbeat(sender), lines 493-502
handle_heartbeat(c, d, s, m) ==
    /\ Commit(c, d)
    /\ hb_fresh' = [hb_fresh EXCEPT ![d] =
                        IF from_coordinator(coordinator_id[d], m.sender) THEN TRUE ELSE @]
    /\ coordinator_id' = [coordinator_id EXCEPT ![d] =
                              IF @ = None THEN m.sender ELSE @]
    /\ hstate' = [hstate EXCEPT ![d][s] = read_next(d)]
    /\ UNCHANGED <<mutexVars, in_progress, received_answer, ethreads, hbpc,
                   leader_update_logged>>

\* ------------------------------------------------------- heartbeat loop
\* run_heartbeat_loop(), lines 506-511: a turn of the loop on the coordinator
HeartbeatTick(n) ==
    /\ alive[n]
    /\ hbpc[n] = "idle"
    /\ coordinator_id[n] = n
    /\ quota.beat > 0
    /\ quota' = [quota EXCEPT !.beat = @ - 1]
    /\ LET c == Broadcast(Ctx(n), n, Ascending(Peers(n)), "HEARTBEAT")
       IN  /\ Commit(c, n)
           /\ hbpc' = [hbpc EXCEPT ![n] = IF c.stuck THEN "blocked" ELSE next_turn(n)]
    /\ UNCHANGED <<envVars, mutexVars, thrVars, hstate, wronglyDead, leader_update_logged,
                   coordinator_id, in_progress, received_answer, hb_fresh, ethreads>>

\* Time passes: last_heartbeat of node n is more than HEARTBEAT_INTERVAL + 4
\* seconds old (line 513).
HeartbeatOverdue(n) ==
    /\ alive[n]
    /\ hb_fresh[n]
    /\ quota.stale > 0
    /\ quota' = [quota EXCEPT !.stale = @ - 1]
    /\ hb_fresh' = [hb_fresh EXCEPT ![n] = FALSE]
    /\ UNCHANGED <<envVars, commVars, mutexVars, thrVars, hstate, wronglyDead, leader_update_logged,
                   coordinator_id, in_progress, received_answer, ethreads, hbpc>>

\* run_heartbeat_loop(), lines 508-520: a turn of the loop on a follower finds
\* the leader timed out
WatchdogCheck(n) ==
    /\ alive[n]
    /\ hbpc[n] = "idle"
    /\ coordinator_id[n] # n
    /\ coordinator_id[n] # None
    /\ ~hb_fresh[n]
    /\ hbpc' = [hbpc EXCEPT ![n] = "timedout"]
    /\ UNCHANGED <<envVars, commVars, mutexVars, thrVars, hstate, quota, wronglyDead, leader_update_logged,
                   coordinator_id, in_progress, received_answer, hb_fresh, ethreads>>

\* run_heartbeat_loop(), lines 521-523, and start_election's lines 419-421
WatchdogFire(n) ==
    /\ alive[n]
    /\ hbpc[n] = "timedout"
    /\ dead_nodes' = [dead_nodes EXCEPT ![n] = @ \cup {coordinator_id[n]}]
    /\ coordinator_id' = [coordinator_id EXCEPT ![n] = None]
    /\ wronglyDead' = (wronglyDead \/
                       (coordinator_id[n] \in Peers(n) /\ alive[coordinator_id[n]]))
    /\ hbpc' = [hbpc EXCEPT ![n] = IF in_progress[n] THEN next_turn(n) ELSE "elect"]
    /\ UNCHANGED <<envVars, mutexVars, thrVars, hstate, quota, leader_update_logged,
                   lamport_clock, net, peer_connections, link, received_replies_event,
                   in_progress, received_answer, hb_fresh, ethreads>>

\* start_election(), lines 422-438, by the heartbeat loop (from line 523)
WatchdogElect(n) ==
    /\ alive[n]
    /\ hbpc[n] = "elect"
    /\ start_round(n, ethreads[n])
    /\ hbpc' = [hbpc EXCEPT ![n] =
                    IF RoundCtx(Ctx(n), n).stuck THEN "blocked" ELSE next_turn(n)]
    /\ UNCHANGED <<envVars, mutexVars, thrVars, hstate, wronglyDead, leader_update_logged, hb_fresh>>

\* ------------------------------------------------------------ dispatcher
\* class MessageType, lines 44-50
MessageType == {"REQUEST", "REPLY", "ELECTION", "ANSWER", "COORDINATOR", "HEARTBEAT"}

\* ThreadSafeSet.discard(item), lines 85-87, as process_message calls it (line 279)
discard(dead, item) == dead \ {item}

\* process_message(), line 276: MessageType(msg["type"]) raises ValueError for
\* a type that is not a member; handle_client_connection (lines 255-258)
\* swallows it, leaves the read loop and closes the socket.
handler_raises(d, s) ==
    /\ Commit([Ctx(d) EXCEPT !.net[<<s, d>>] = Tail(@),
                             !.link[<<s, d>>] = "closed"], d)
    /\ UNCHANGED <<electVars, hstate, replies_received, deferred_replies, deferred_rc,
                   leader_update_logged>>

\* handle_client_connection() / process_message(), lines 245-290: the handler
\* thread of the connection from s reads the next frame, clears the sender
\* from dead_nodes, merges the clock and dispatches on the type.
Deliver(d, s) ==
    /\ alive[d]
    /\ hstate[d][s].pc = "idle"
    /\ link[<<s, d>>] = "open"
    /\ net[<<s, d>>] # <<>>
    /\ LET m == Head(net[<<s, d>>])
           c == [Ctx(d) EXCEPT !.net[<<s, d>>] = Tail(@),
                               !.dead = discard(@, m.sender),
                               !.clk = update_clock(@, m.timestamp)]
       IN  CASE m.type \notin MessageType -> handler_raises(d, s)
             [] m.type = "REQUEST" -> handle_request(c, d, s, m)
             [] m.type = "REPLY" -> handle_reply(c, d, s, m)
             [] m.type = "ELECTION" -> handle_election(c, d, s, m)
             [] m.type = "ANSWER" -> handle_answer(c, d, s, m)
             [] m.type = "COORDINATOR" -> handle_coordinator(c, d, s, m)
             [] m.type = "HEARTBEAT" -> handle_heartbeat(c, d, s, m)
    /\ UNCHANGED <<envVars, thrVars, quota, wronglyDead,
                   state, request_clock, shared_counter, mutex_lock, pc, toSend>>

\* ------------------------------------------- the clock, statement by statement
\* The threads of node ClockNode (its Request() thread, its connection
\* handlers, its heartbeat loop, its election task) inside tick() and
\* update_clock(), one Python statement per step.

\* `with self.clock_lock` entered without waiting for the lock
ClockLockIgnored == TRUE

\* `with self.clock_lock`, lines 149 and 154: the lock can be taken
ClockLockFree == clock_lock = None

\* A thread calls tick() (from send_message) or update_clock(t) (from
\* process_message) and enters the with block.
ClockCall(t) ==
    /\ thr[t].pc = "idle"
    /\ quota.ops > 0
    /\ ClockLockFree
    /\ clock_lock' = t
    /\ quota' = [quota EXCEPT !.ops = @ - 1]
    /\ \/ thr' = [thr EXCEPT ![t] = [ThrIdle EXCEPT !.pc = "load", !.op = "tick"]]
       \/ \E a \in 0..MaxStamp :
              thr' = [thr EXCEPT ![t] =
                         [ThrIdle EXCEPT !.pc = "load", !.op = "update", !.arg = a]]
    /\ UNCHANGED <<envVars, commVars, mutexVars, electVars, hstate,
                   wronglyDead, leader_update_logged, frames, lockers>>

\* lines 150 and 155: the right-hand side reads self.lamport_clock
ClockLoad(t) ==
    /\ thr[t].pc = "load"
    /\ thr' = [thr EXCEPT ![t].pc = "store", ![t].reg = lamport_clock[ClockNode]]
    /\ UNCHANGED <<envVars, commVars, mutexVars, electVars, hstate,
                   quota, wronglyDead, leader_update_logged, clock_lock, frames, lockers>>

\* The value a thread's store writes
ClockNewValue(t) ==
    IF thr[t].op = "tick" THEN tick(thr[t].reg)
    ELSE update_clock(thr[t].reg, thr[t].arg)

\* lines 150 and 155: self.lamport_clock is assigned
ClockStore(t) ==
    /\ thr[t].pc = "store"
    /\ lamport_clock' = [lamport_clock EXCEPT ![ClockNode] = ClockNewValue(t)]
    /\ thr' = [thr EXCEPT ![t].pc = "release", ![t].wrote = ClockNewValue(t)]
    /\ UNCHANGED <<envVars, mutexVars, electVars, hstate, quota, wronglyDead, leader_update_logged,
                   net, dead_nodes, peer_connections, link, received_replies_event,
                   clock_lock, frames, lockers>>

\* the with block is left; update_clock() returns
ClockRelease(t) ==
    /\ thr[t].pc = "release"
    /\ clock_lock' = IF clock_lock = t THEN None ELSE clock_lock
    /\ thr' = [thr EXCEPT ![t].pc = IF thr[t].op = "tick" THEN "return" ELSE "idle"]
    /\ UNCHANGED <<envVars, commVars, mutexVars, electVars, hstate,
                   quota, wronglyDead, leader_update_logged, frames, lockers>>

\* line 151: `return self.lamport_clock`, read after the lock was released;
\* send_message puts the value in the frame it builds (line 220).
ClockReturn(t) ==
    /\ thr[t].pc = "return"
    /\ frames' = Append(frames, [thread |-> t, timestamp |-> lamport_clock[ClockNode],
                                 wrote |-> thr[t].wrote])
    /\ thr' = [thr EXCEPT ![t].pc = "idle"]
    /\ UNCHANGED <<envVars, commVars, mutexVars, electVars, hstate,
                   quota, wronglyDead, leader_update_logged, clock_lock, lockers>>

\* ------------------------------------------------------------ the locks
\* The four locks of a node, and their place in the hierarchy of the class
\* docstring, lines 105-107, outer to inner.
LockNames == {"conn_lock", "dead_nodes", "mutex_lock", "clock_lock"}

LockRank(l) ==
    CASE l = "conn_lock" -> 1
      [] l = "dead_nodes" -> 2
      [] l = "mutex_lock" -> 3
      [] l = "clock_lock" -> 4

\* `with lock:` around the lock operations of its body
With(l, body) ==
    <<[op |-> "acquire", lock |-> l]>> \o body \o <<[op |-> "release", lock |-> l]>>

\* A method of ThreadSafeSet on self.dead_nodes, lines 81-99
dead_nodes_call == With("dead_nodes", <<>>)

\* tick() and update_clock(), lines 148-155
clock_call == With("clock_lock", <<>>)

\* _maybe_signal_replies_complete() and _expected_replies(), lines 157-158 and
\* 545-547: len(self.dead_nodes)
expected_replies_call == dead_nodes_call

\* _get_connection(target), lines 161-189: the socket is pooled, or the connect
\* succeeds (discard, line 179), or it fails (membership test, line 181)
get_connection_call(how) ==
    With("conn_lock", IF how = "pooled" THEN <<>> ELSE dead_nodes_call)

\* _try_send(target, data), lines 191-206; "broken": the write on the pooled
\* socket fails and the socket is dropped (lines 199-205)
try_send_call(how) ==
    IF how = "broken"
    THEN get_connection_call("pooled") \o With("conn_lock", <<>>)
    ELSE get_connection_call(how)

\* What can happen to a send_message call.
SendOutcomes == {"pooled", "connected", "reconnected", "known_dead", "marked",
                 "marked_wanted"}

\* send_message(target, type), lines 208-238, by its outcome: sent at the first
\* try, sent at the second, or failed twice to a peer already in dead_nodes or
\* to one that is marked dead now (lines 229-238), the node being WANTED or not
send_message_call(type, how) ==
    (IF type = "HEARTBEAT" THEN dead_nodes_call ELSE <<>>)
    \o clock_call
    \o CASE how = "pooled" -> try_send_call("pooled")
         [] how = "connected" -> try_send_call("connected")
         [] how = "reconnected" -> try_send_call("broken") \o try_send_call("connected")
         [] how = "known_dead" ->
                try_send_call("refused") \o try_send_call("refused") \o dead_nodes_call
         [] how = "marked" ->
                try_send_call("refused") \o try_send_call("refused") \o dead_nodes_call
                \o dead_nodes_call \o With("mutex_lock", <<>>)
         [] how = "marked_wanted" ->
                try_send_call("refused") \o try_send_call("refused") \o dead_nodes_call
                \o dead_nodes_call \o With("mutex_lock", expected_replies_call)

\* exit_critical_section(), lines 409-414, with one deferred reply or none
exit_critical_section_calls ==
    {With("mutex_lock", <<>>)}
    \cup {With("mutex_lock", send_message_call("REPLY", how)) : how \in SendOutcomes}

\* enter_critical_section(), lines 374-407
enter_critical_section_calls ==
    {With("mutex_lock", <<>>) \o x : x \in exit_critical_section_calls}

\* request_critical_section(), lines 293-347, in a cluster of two: the no-op,
\* the entry that expects no reply, and the episode with one REQUEST whose wait is
\* answered, or times out with the peer missing or already dead
request_critical_section_calls ==
    LET begin == With("mutex_lock", clock_call \o expected_replies_call)
        timeout(missing) ==
            With("mutex_lock",
                 dead_nodes_call
                 \o (IF missing THEN dead_nodes_call \o expected_replies_call ELSE <<>>))
    IN  {With("mutex_lock", <<>>)}
        \cup {begin \o x : x \in enter_critical_section_calls}
        \cup {begin \o dead_nodes_call \o send_message_call("REQUEST", how) \o x :
                 how \in {"pooled", "connected"}, x \in enter_critical_section_calls}
        \cup {begin \o dead_nodes_call \o send_message_call("REQUEST", "pooled")
                 \o timeout(TRUE) \o x : x \in enter_critical_section_calls}
        \cup {begin \o dead_nodes_call \o send_message_call("REQUEST", "pooled")
                 \o timeout(FALSE) \o With("mutex_lock", <<>>)}

\* start_election() and become_coordinator(), lines 417-438 and 482-490, in a
\* cluster of two: the log's tick, the snapshot, and one ELECTION or, after
\* another tick, one COORDINATOR
start_election_calls ==
    {<<>>}
    \cup {clock_call \o dead_nodes_call \o send_message_call("ELECTION", how) :
             how \in SendOutcomes}
    \cup {clock_call \o dead_nodes_call \o clock_call
             \o send_message_call("COORDINATOR", how) : how \in SendOutcomes}

\* process_message(msg), lines 274-290, with the handler of the frame's type
\* (lines 349-372 and 458-502)
process_message_calls ==
    LET begin == dead_nodes_call \o clock_call
    IN  {begin}
        \cup {begin \o With("mutex_lock", <<>>)}
        \cup {begin \o With("mutex_lock", <<>>) \o send_message_call("REPLY", how) :
                 how \in SendOutcomes}
        \cup {begin \o With("mutex_lock", expected_replies_call)}
        \cup {begin \o send_message_call(type, "pooled") \o x :
                 type \in {"ANSWER", "COORDINATOR"}, x \in start_election_calls}

\* A turn of run_heartbeat_loop(), lines 506-523: one HEARTBEAT, suppressed
\* (line 214) or sent, or the leader's timeout
run_heartbeat_loop_calls ==
    {dead_nodes_call}
    \cup {send_message_call("HEARTBEAT", how) : how \in SendOutcomes}
    \cup {dead_nodes_call \o x : x \in start_election_calls}

\* shutdown(), lines 526-544
shutdown_calls == {With("conn_lock", <<>>)}

\* The calls a thread of a node makes, by their lock operations.
LockPrograms ==
    request_critical_section_calls \cup process_message_calls
    \cup (start_election_calls \ {<<>>}) \cup run_heartbeat_loop_calls
    \cup shutdown_calls

\* The locks some thread holds
HeldLocks == UNION {{lockers[t].held[i] : i \in 1..Len(lockers[t].held)} : t \in Threads}

\* A thread starts one of the calls.
LockCall(t) ==
    /\ lockers[t].todo = <<>>
    /\ lockers[t].held = <<>>
    /\ \E prog \in LockPrograms : lockers' = [lockers EXCEPT ![t].todo = prog]
    /\ UNCHANGED <<envVars, commVars, mutexVars, electVars, hstate, quota,
                   wronglyDead, leader_update_logged, clock_lock, thr, frames>>

\* threading.Lock.acquire(): the thread takes a lock nobody holds; it waits
\* while any thread holds it, itself included.
LockAcquire(t) ==
    /\ lockers[t].todo # <<>>
    /\ Head(lockers[t].todo).op = "acquire"
    /\ Head(lockers[t].todo).lock \notin HeldLocks
    /\ lockers' = [lockers EXCEPT ![t].todo = Tail(@),
                                  ![t].held = Append(@, Head(lockers[t].todo).lock)]
    /\ UNCHANGED <<envVars, commVars, mutexVars, electVars, hstate, quota,
                   wronglyDead, leader_update_logged, clock_lock, thr, frames>>

\* threading.Lock.release() at the end of a with block
LockRelease(t) ==
    /\ lockers[t].todo # <<>>
    /\ Head(lockers[t].todo).op = "release"
    /\ lockers' = [lockers EXCEPT ![t].todo = Tail(@),
                                  ![t].held = SubSeq(@, 1, Len(@) - 1)]
    /\ UNCHANGED <<envVars, commVars, mutexVars, electVars, hstate, quota,
                   wronglyDead, leader_update_logged, clock_lock, thr, frames>>

\* ------------------------------------------------------------- lifecycle
\* shutdown() that does not look at self.running
shutdown_again(r) == TRUE

\* shutdown(), lines 528-529: the call goes on only while self.running
shutdown_proceeds(r) == r

\* shutdown(), lines 526-544, called by the REPL (quit) or a signal handler
shutdown(n) ==
    /\ alive[n]
    /\ quota.shutdown > 0
    /\ quota' = [quota EXCEPT !.shutdown = @ - 1]
    /\ IF shutdown_proceeds(running[n])
       THEN /\ running' = [running EXCEPT ![n] = FALSE]
            /\ peer_connections' = [peer_connections EXCEPT ![n] = {}]
            /\ shutdown_events' = [shutdown_events EXCEPT ![n] = @ + 1]
       ELSE UNCHANGED <<running, peer_connections, shutdown_events>>
    /\ UNCHANGED <<peers, alive, lamport_clock, net, dead_nodes, received_replies_event,
                   link, mutexVars, electVars, thrVars, hstate, wronglyDead, leader_update_logged>>

\* run_heartbeat_loop(), lines 506-512: a turn that has nothing to do, after
\* which `while self.running` ends the loop
HeartbeatStop(n) ==
    /\ alive[n]
    /\ ~running[n]
    /\ hbpc[n] = "idle"
    /\ coordinator_id[n] = None \/ (coordinator_id[n] # n /\ hb_fresh[n])
    /\ hbpc' = [hbpc EXCEPT ![n] = next_turn(n)]
    /\ UNCHANGED <<envVars, commVars, mutexVars, thrVars, hstate, quota, wronglyDead, leader_update_logged,
                   coordinator_id, in_progress, received_answer, hb_fresh, ethreads>>

\* The reset of a connection whose receiving end d has closed reaches the
\* sender s: the next write on the pooled socket fails (lines 198-206).
Reset(s, d) ==
    /\ alive[s] /\ alive[d]
    /\ d \in peer_connections[s]
    /\ Link(link, d, s) = "closed"
    /\ link' = [link EXCEPT ![<<s, d>>] = "reset"]
    /\ UNCHANGED <<envVars, lamport_clock, net, dead_nodes, peer_connections,
                   received_replies_event, mutexVars, electVars, thrVars, hstate,
                   quota, wronglyDead, leader_update_logged>>

\* A frame of a type this version does not know arrives on the connection
\* from s (written by a peer of another version).
UnknownFrame(s, d) ==
    /\ alive[s] /\ alive[d]
    /\ d \in peer_connections[s]
    /\ link[<<s, d>>] = "open"
    /\ quota.unknown > 0
    /\ quota' = [quota EXCEPT !.unknown = @ - 1]
    /\ net' = [net EXCEPT ![<<s, d>>] =
                   Append(@, Frame("PING", s, lamport_clock[s], NoHist))]
    /\ UNCHANGED <<envVars, lamport_clock, dead_nodes, peer_connections,
                   received_replies_event, link, mutexVars, electVars, thrVars, hstate,
                   wronglyDead, leader_update_logged>>

\* ------------------------------------------------------------- environment
\* The process of node n dies: its state is gone, frames addressed to it are lost.
Crash(n) ==
    /\ alive[n]
    /\ quota.crash > 0
    /\ quota' = [quota EXCEPT !.crash = @ - 1]
    /\ alive' = [alive EXCEPT ![n] = FALSE]
    /\ lamport_clock' = [lamport_clock EXCEPT ![n] = 0]
    /\ state' = [state EXCEPT ![n] = "RELEASED"]
    /\ request_clock' = [request_clock EXCEPT ![n] = 0]
    /\ replies_received' = [replies_received EXCEPT ![n] = {}]
    /\ deferred_replies' = [deferred_replies EXCEPT ![n] = <<>>]
    /\ received_replies_event' = [received_replies_event EXCEPT ![n] = FALSE]
    /\ shared_counter' = [shared_counter EXCEPT ![n] = 0]
    /\ mutex_lock' = [mutex_lock EXCEPT ![n] = "free"]
    /\ dead_nodes' = [dead_nodes EXCEPT ![n] = {}]
    /\ peer_connections' = [peer_connections EXCEPT ![n] = {}]
    /\ net' = [c \in Chan |-> IF c[2] = n THEN <<>> ELSE net[c]]
    /\ pc' = [pc EXCEPT ![n] = "idle"]
    /\ toSend' = [toSend EXCEPT ![n] = {}]
    /\ hstate' = [hstate EXCEPT ![n] = [s \in Nodes \ {n} |-> HIdle]]
    /\ deferred_rc' = [deferred_rc EXCEPT ![n] = <<>>]
    /\ coordinator_id' = [coordinator_id EXCEPT ![n] = None]
    /\ in_progress' = [in_progress EXCEPT ![n] = FALSE]
    /\ received_answer' = [received_answer EXCEPT ![n] = FALSE]
    /\ hb_fresh' = [hb_fresh EXCEPT ![n] = TRUE]
    /\ ethreads' = [ethreads EXCEPT ![n] = NoThreads]
    /\ hbpc' = [hbpc EXCEPT ![n] = "idle"]
    /\ link' = [c \in Chan |-> IF n \in {c[1], c[2]} THEN "open" ELSE link[c]]
    /\ UNCHANGED <<peers, running, shutdown_events, wronglyDead, leader_update_logged, thrVars>>

\* The mutex of a cluster whose processes may die; no election is started.
Next ==
    \/ \E n \in Nodes : RequestCS(n)
    \/ \E n \in Nodes : Snapshot(n)
    \/ \E n \in Nodes : SendRequest(n)
    \/ \E n \in Nodes : WaitDone(n)
    \/ \E n \in Nodes : WaitTimeout(n)
    \/ \E n \in Nodes : EnterCS(n)
    \/ \E n \in Nodes : ExitCS(n)
    \/ \E c \in Chan : Deliver(c[2], c[1])
    \/ \E c \in Chan : SendReply(c[2], c[1])
    \/ \E n \in Nodes : Crash(n)

Spec == Init /\ [][Next]_vars

\* Runs in which no process dies and no wait times out.
NextReliable ==
    \/ \E n \in Nodes : RequestCS(n)
    \/ \E n \in Nodes : Snapshot(n)
    \/ \E n \in Nodes : SendRequest(n)
    \/ \E n \in Nodes : WaitDone(n)
    \/ \E n \in Nodes : EnterCS(n)
    \/ \E n \in Nodes : ExitCS(n)
    \/ \E c \in Chan : Deliver(c[2], c[1])
    \/ \E c \in Chan : SendReply(c[2], c[1])

InitReliable ==
    /\ InitNodes
    /\ peers = Nodes
    /\ quota = [NoQuota EXCEPT !.req = MaxRequestsReliable]

SpecReliable == InitReliable /\ [][NextReliable]_vars

\* The threads of one node on its clock.
NextClock ==
    \/ \E t \in Threads : ClockCall(t)
    \/ \E t \in Threads : ClockLoad(t)
    \/ \E t \in Threads : ClockStore(t)
    \/ \E t \in Threads : ClockRelease(t)
    \/ \E t \in Threads : ClockReturn(t)

InitClock ==
    /\ InitNodes
    /\ peers = Nodes
    /\ quota = [NoQuota EXCEPT !.ops = MaxClockOps]

SpecClock == InitClock /\ [][NextClock]_vars

\* The threads of one node on its locks.
NextLocks ==
    \/ \E t \in Threads : LockCall(t)
    \/ \E t \in Threads : LockAcquire(t)
    \/ \E t \in Threads : LockRelease(t)

InitLocks ==
    /\ InitNodes
    /\ peers = {1, 2}
    /\ quota = NoQuota

SpecLocks == InitLocks /\ [][NextLocks]_vars

\* The whole node: mutex, election and heartbeat loop of a cluster in which
\* no process dies.
NextFull ==
    \/ \E n \in Nodes : RequestCS(n)
    \/ \E n \in Nodes : Snapshot(n)
    \/ \E n \in Nodes : SendRequest(n)
    \/ \E n \in Nodes : WaitDone(n)
    \/ \E n \in Nodes : WaitTimeout(n)
    \/ \E n \in Nodes : EnterCS(n)
    \/ \E n \in Nodes : ExitCS(n)
    \/ \E c \in Chan : Deliver(c[2], c[1])
    \/ \E c \in Chan : SendReply(c[2], c[1])
    \/ \E n \in Nodes : Elect(n)
    \/ \E n \in Nodes : ElectionThread(n)
    \/ \E c \in Chan : HandlerElect(c[2], c[1])
    \/ \E n \in Nodes : DeadlineFirst(n)
    \/ \E n \in Nodes : DeadlineSecond(n)
    \/ \E n \in Nodes : HeartbeatTick(n)
    \/ \E n \in Nodes : HeartbeatOverdue(n)
    \/ \E n \in Nodes : WatchdogCheck(n)
    \/ \E n \in Nodes : WatchdogFire(n)
    \/ \E n \in Nodes : WatchdogElect(n)

\* What the environment may do in a run of the whole node, one of: few
\* requests; no reply timeout and no heartbeat; few elections.
FullBudgets ==
    {[NoQuota EXCEPT !.req = FullRequests - 1, !.timeout = FullTimeouts,
                     !.elect = FullElects - 1, !.round = FullRounds,
                     !.beat = FullBeats, !.stale = FullStales],
     [NoQuota EXCEPT !.req = FullRequests, !.elect = FullElects,
                     !.round = FullRounds, !.stale = FullStales],
     [NoQuota EXCEPT !.req = FullRequests, !.timeout = FullTimeouts,
                     !.elect = FullElects - 1, !.round = FullRounds - 1,
                     !.stale = FullStales]}

\* The peers files the runs of the whole node start from.
FullPeerTables == {{1, 2}}

InitFull ==
    /\ InitNodes
    /\ peers \in FullPeerTables
    /\ quota \in FullBudgets

SpecFull == InitFull /\ [][NextFull]_vars

\* The whole node in a cluster whose processes may die.
NextFullCrash ==
    \/ NextFull
    \/ \E n \in Nodes : Crash(n)

\* What the environment may do in such a run, one of: a process dies, no reply
\* times out and no heartbeat is sent; no process dies; no process dies, no
\* heartbeat is sent and the start-up election meets an `elect` command; a
\* process dies, its heartbeat goes overdue and one Request() is made.
FullCrashBudgets ==
    {[NoQuota EXCEPT !.req = FullRequests, !.elect = FullElects - 1,
                     !.round = FullRounds, !.crash = MaxCrashes],
     [NoQuota EXCEPT !.req = FullRequests - 1, !.timeout = FullTimeouts,
                     !.elect = FullElects - 1, !.round = FullRounds,
                     !.beat = FullBeats, !.stale = FullStales],
     [NoQuota EXCEPT !.req = FullRequests - 1, !.timeout = FullTimeouts,
                     !.elect = FullElects, !.round = FullRounds],
     [NoQuota EXCEPT !.req = FullRequests - 1, !.timeout = FullTimeouts,
                     !.elect = FullElects - 1, !.round = FullRounds,
                     !.stale = FullStales, !.crash = MaxCrashes]}

InitFullCrash ==
    /\ InitNodes
    /\ peers \in FullPeerTables
    /\ quota \in FullCrashBudgets

SpecFullCrash == InitFullCrash /\ [][NextFullCrash]_vars

\* The whole node with its shutdown: what its threads do before and after
\* shutdown() is called.
NextShutdown ==
    \/ NextFull
    \/ \E n \in Nodes : shutdown(n)
    \/ \E n \in Nodes : HeartbeatStop(n)
    \/ \E c \in Chan : Reset(c[1], c[2])

ShutdownBudgets ==
    {[NoQuota EXCEPT !.req = FullRequests, !.timeout = FullTimeouts,
                     !.shutdown = ShutdownCalls],
     [NoQuota EXCEPT !.elect = FullElects - 1, !.round = FullRounds,
                     !.beat = FullBeats, !.stale = FullStales,
                     !.shutdown = ShutdownCalls]}

InitShutdown ==
    /\ InitNodes
    /\ peers \in FullPeerTables
    /\ quota \in ShutdownBudgets

SpecShutdown == InitShutdown /\ [][NextShutdown]_vars

\* ------------------------------------------- elections in a timely cluster
\* The running nodes of the cluster.
Live == {n \in peers : alive[n]}

\* main(), lines 623-626: after its start-up wait a node that knows no
\* coordinator starts an election thread, which enters start_election's sleep
StartUp(n) ==
    /\ alive[n]
    /\ n \in quota.startup
    /\ quota' = [quota EXCEPT !.startup = @ \ {n}]
    /\ ethreads' = [ethreads EXCEPT ![n].sleep =
                        IF coordinator_id[n] = None /\ ~in_progress[n] THEN @ + 1 ELSE @]
    /\ UNCHANGED <<envVars, commVars, mutexVars, thrVars, hstate, wronglyDead, leader_update_logged,
                   coordinator_id, in_progress, received_answer, hb_fresh, hbpc>>

\* A heartbeat of coordinator n, the frames of its last turn delivered, that
\* changes something at a peer: the peer is gone, knows no coordinator, holds
\* n for dead, or waits for n's heartbeat.
HeartbeatUseful(n) ==
    /\ alive[n] /\ coordinator_id[n] = n /\ hbpc[n] = "idle"
    /\ \A p \in Peers(n) : net[<<n, p>>] = <<>>
    /\ \E p \in Peers(n) \ dead_nodes[n] :
          \/ ~alive[p]
          \/ coordinator_id[p] = None
          \/ n \in dead_nodes[p]
          \/ coordinator_id[p] = n /\ ~hb_fresh[p]

\* Nothing that takes less than a second is pending anywhere: no frame in
\* flight, no handler at work, no thread in start_election's sleep, no
\* heartbeat loop inside a turn.
Quiet ==
    /\ \A c \in Chan : net[c] = <<>>
    /\ \A n \in Live :
          /\ ethreads[n].sleep = 0
          /\ n \notin quota.startup
          /\ hbpc[n] = "idle"
          /\ \A s \in Peers(n) : hstate[n][s].pc = "idle"

\* No heartbeat refreshes last_heartbeat of node n: it follows no coordinator,
\* or the node it follows is gone, is no coordinator, or holds n for dead.
NoHeartbeatComing(n) ==
    IF coordinator_id[n] \in {n, None} THEN TRUE
    ELSE LET c == coordinator_id[n]
         IN  ~(alive[c] /\ coordinator_id[c] = c /\ n \notin dead_nodes[c])

\* The 5 s deadlines of _wait_for_election_result (ELECTION_TIMEOUT, line 20)
\* and the 6 s heartbeat timeout (line 514) run out in a cluster whose frames
\* and handlers take far less: only once the cluster is quiet.
TimelyDeadlineFirst(n) == Quiet /\ DeadlineFirst(n)
TimelyDeadlineSecond(n) == Quiet /\ DeadlineSecond(n)
TimelyOverdue(n) == Quiet /\ NoHeartbeatComing(n) /\ HeartbeatOverdue(n)
TimelyHeartbeat(n) == HeartbeatUseful(n) /\ HeartbeatTick(n)

\* The threads of the nodes: each keeps running.
ElectionSystem ==
    \/ \E n \in Nodes : StartUp(n)
    \/ \E n \in Nodes : ElectionThread(n)
    \/ \E c \in Chan : HandlerElect(c[2], c[1])
    \/ \E c \in Chan : Deliver(c[2], c[1])
    \/ \E n \in Nodes : TimelyDeadlineFirst(n)
    \/ \E n \in Nodes : TimelyDeadlineSecond(n)
    \/ \E n \in Nodes : TimelyHeartbeat(n)
    \/ \E n \in Nodes : TimelyOverdue(n)
    \/ \E n \in Nodes : WatchdogCheck(n)
    \/ \E n \in Nodes : WatchdogFire(n)
    \/ \E n \in Nodes : WatchdogElect(n)

\* Elections have settled: every live node has installed a coordinator, no
\* round is in progress or about to start, and no election frame is in flight.
Settled ==
    /\ \A n \in Live :
          /\ coordinator_id[n] # None
          /\ ~in_progress[n]
          /\ ethreads[n] = NoThreads
          /\ hbpc[n] \in {"idle", "stopped"}
          /\ \A s \in Peers(n) : hstate[n][s].pc # "elect"
    /\ \A c \in Chan : \A i \in 1..Len(net[c]) :
          net[c][i].type \notin {"ELECTION", "ANSWER", "COORDINATOR"}

\* A process dies at any moment in the cluster of two; in a larger cluster it
\* dies once the start-up elections have settled.
CrashElection(n) ==
    /\ Cardinality(peers) = 2 \/ (Settled /\ Quiet)
    /\ Crash(n)

\* The environment: the operator's `elect`, and processes that die.
NextElection ==
    \/ ElectionSystem
    \/ \E n \in Nodes : Elect(n)
    \/ \E n \in Nodes : CrashElection(n)

\* The peers files of those runs; the operator types `elect` in the smaller.
ElectionPeerTables == {{1, 2}, {1, 2, 3}}

InitElection ==
    /\ InitNodes
    /\ peers \in ElectionPeerTables
    /\ quota = [NoQuota EXCEPT !.startup = peers,
                               !.elect = IF Cardinality(peers) = 2
                                         THEN ElectionElects ELSE 0,
                               !.crash = MaxCrashes, !.round = ElectionRounds,
                               !.beat = ElectionBeats, !.stale = ElectionStales]

\* Every thread that can take a step eventually does, and time passes.
SpecElection == InitElection /\ [][NextElection]_vars /\ WF_vars(ElectionSystem)

\* Peers of another version: frames of unknown type arrive among the others.
NextUnknown ==
    \/ Next
    \/ \E c \in Chan : UnknownFrame(c[1], c[2])
    \/ \E c \in Chan : Reset(c[1], c[2])

InitUnknown ==
    /\ InitNodes
    /\ peers \in FullPeerTables
    /\ quota = [NoQuota EXCEPT !.req = MaxRequests, !.timeout = MaxRequests,
                               !.crash = MaxCrashes, !.unknown = MaxUnknown]

SpecUnknown == InitUnknown /\ [][NextUnknown]_vars

\* ================================================================ claims
Range(s) == {s[i] : i \in 1..Len(s)}

\* (c1, n1) > (c2, n2) in lexicographic order
LexGreater(c1, n1, c2, n2) == c1 > c2 \/ (c1 = c2 /\ n1 > n2)

HeldNodes == {n \in Nodes : alive[n] /\ state[n] = "HELD"}

C2_TieBreakLowerIdFirst ==
    \A a, b \in Nodes :
        (/\ a < b /\ alive[a] /\ alive[b]
         /\ state[a] = "WANTED" /\ state[b] # "RELEASED"
         /\ request_clock[a] = request_clock[b])
        => (a \notin Range(deferred_replies[b]) /\ state[b] # "HELD")

\* C3 (as claimed): every REQUEST frame carries the request_clock of the
\* episode it was sent in.
C3_RequestCarriesRequestClock ==
    \A c \in Chan : \A i \in 1..Len(net[c]) :
        net[c][i].type = "REQUEST" => net[c][i].timestamp = net[c][i].rc

\* The handler thread of b's connection from a decides, in this step, to REPLY.
ReplyDecided(b, a) == hstate[b][a].pc = "idle" /\ hstate'[b][a].pc = "reply"

\* C6: whenever B decides to answer A's REQUEST (clock c) with a REPLY, B is
\* RELEASED, or B is WANTED with (request_clock_B, B) > (c, A); the replies B
\* owes from its critical section are sent with B's state already RELEASED.
\* B never decides to reply while HELD.
C6_ReplyOnlyWithoutPriority ==
    [][\A b \in Nodes : \A a \in Peers(b) :
          /\ ReplyDecided(b, a) =>
                LET m == Head(net[<<a, b>>])
                IN  \/ state[b] = "RELEASED"
                    \/ /\ state[b] = "WANTED"
                       /\ LexGreater(request_clock[b], b, m.timestamp, a)
                       /\ LexGreater(request_clock[b], b, m.rc, a)
          /\ (pc[b] = "cs" /\ pc'[b] # "cs" /\ alive'[b]) => state'[b] = "RELEASED"
      ]_vars

\* C6 witness: a handler has decided to REPLY while its node was itself
\* WANTED, to a requester that is WANTED with the lower clock.
C6_Witness ==
    \E b \in Nodes : \E a \in Peers(b) :
        /\ hstate[b][a].pc = "reply" /\ hstate[b][a].st = "WANTED"
        /\ state[b] = "WANTED" /\ state[a] = "WANTED"
        /\ request_clock[b] > hstate[b][a].rc

\* The REPLY frames exit_critical_section of n owes peer p: one per deferred
\* REQUEST of p, the i-th deferred entry being the i-th send of the step.
OwedReplies(n, p) ==
    LET d == deferred_replies[n]
        ix == SelectSeq([i \in 1..Len(d) |-> i], LAMBDA i : d[i] = p)
    IN  [k \in 1..Len(ix) |->
            Frame("REPLY", n, lamport_clock[n] + ix[k],
                  [rc |-> deferred_rc[n][ix[k]], deferred |-> TRUE])]

\* C7 (as claimed): when a Request() episode completes, by leaving the
\* critical section or by the MUTEX_FAIL abort, deferred_replies is empty and
\* every running peer that was deferred has been sent exactly one REPLY per
\* deferred REQUEST, in insertion order.
C7_DeferredDrainedAfterEpisode ==
    [][\A n \in Nodes :
          ((pc[n] = "cs" \/ pc[n] = "waiting") /\ pc'[n] = "idle" /\ alive'[n]) =>
              /\ deferred_replies'[n] = <<>>
              /\ \A p \in Peers(n) :
                    alive[p] => net'[<<n, p>>] = net[<<n, p>>] \o OwedReplies(n, p)
      ]_vars

\* C8: a Request() call made on a node whose state is WANTED or HELD changes
\* nothing of that node: state, request_clock, replies_received, the event, the
\* clock, the thread's position, and no frame is sent.
C8_RequestNoOpUnlessReleased ==
    [][quota'.req < quota.req =>
          \A n \in Nodes :
              state[n] # "RELEASED" =>
                  /\ state'[n] = state[n]
                  /\ request_clock'[n] = request_clock[n]
                  /\ replies_received'[n] = replies_received[n]
                  /\ received_replies_event'[n] = received_replies_event[n]
                  /\ lamport_clock'[n] = lamport_clock[n]
                  /\ pc'[n] = pc[n]
                  /\ \A p \in Peers(n) : net'[<<n, p>>] = net[<<n, p>>]
      ]_vars

\* C8 witness: both calls were made on one node, the second while its first
\* episode was still waiting.
C8_Witness ==
    \E n \in Nodes :
        /\ peers = Nodes /\ quota.req = MaxRequests - 2
        /\ state[n] = "WANTED" /\ shared_counter[n] = 0 /\ dead_nodes[n] = {}
        /\ \A p \in Nodes : alive[p]
        /\ \A p \in Peers(n) : request_clock[p] = 0

\* C4 (as claimed): of two frames one node produces, the later carries the
\* strictly higher timestamp, and each carries the value its own tick() wrote.
C4_FrameTimestampsIncrease ==
    /\ \A i, j \in 1..Len(frames) : i < j => frames[i].timestamp < frames[j].timestamp
    /\ \A i \in 1..Len(frames) : frames[i].timestamp = frames[i].wrote

\* A thread assigns self.lamport_clock in this step.
ClockAssigned(t) == thr[t].pc = "store" /\ thr'[t].pc = "release"

\* C5: under every interleaving of tick() and update_clock(t) the clock only
\* changes by a thread's assignment, which raises it: tick() by exactly 1,
\* update_clock(t) to max(clock, t) + 1, the clock being its value at that
\* moment; no step lowers it, no assignment leaves it unchanged.
C5_ClockStrictlyIncreasing ==
    [][/\ lamport_clock'[ClockNode] >= lamport_clock[ClockNode]
       /\ \A t \in Threads :
             ClockAssigned(t) =>
                 /\ lamport_clock'[ClockNode] > lamport_clock[ClockNode]
                 /\ thr[t].op = "tick" =>
                        lamport_clock'[ClockNode] = lamport_clock[ClockNode] + 1
                 /\ thr[t].op = "update" =>
                        lamport_clock'[ClockNode] =
                            Max(lamport_clock[ClockNode], thr[t].arg) + 1
      ]_vars

\* C5 witness: an update_clock(t) with t above the clock has run between two
\* tick() calls of another thread.
C5_Witness ==
    /\ Len(frames) = 2
    /\ frames[1].thread = frames[2].thread
    /\ frames[2].wrote > frames[1].wrote + 2
    /\ lamport_clock[ClockNode] = frames[2].wrote

\* C9 (as claimed): no Request() thread is ever stuck: mutex_lock is never
\* held by a thread that is itself waiting for it.
C9_RequestAlwaysReturns ==
    \A n \in Nodes : pc[n] # "deadlock" /\ mutex_lock[n] = "free"

\* C10 (as claimed): when the wait times out, every peer that has neither
\* replied nor is dead is added to dead_nodes, and the requester goes on to the
\* critical section exactly if |replies_received| >= |peers| - 1 - |dead_nodes|
\* then holds; it goes back to RELEASED only if that does not hold.
C10_TimeoutAbortsOnlyWhenShort ==
    [][\A n \in Nodes :
          (/\ pc[n] = "waiting" /\ ~received_replies_event[n]
           /\ pc'[n] \in {"idle", "enter"} /\ alive'[n]) =>
              /\ dead_nodes'[n] = dead_nodes[n] \cup missing_peers(n)
              /\ pc'[n] = "enter" <=>
                     Cardinality(replies_received'[n]) >= _expected_replies(dead_nodes'[n])
              /\ pc'[n] = "idle" => state'[n] = "RELEASED"
      ]_vars

\* C18 (as claimed): an episode that starts with an expected reply count of 0
\* (single-node cluster, or every other peer in dead_nodes) sends no REQUEST and
\* waits for no REPLY: the step that makes the node WANTED leaves the network
\* untouched and goes straight to the entry, and the entry makes it HELD.
C18_NoPeersEntersDirectly ==
    [][\A n \in Nodes :
          /\ (/\ state[n] = "RELEASED" /\ state'[n] = "WANTED"
              /\ _expected_replies(dead_nodes[n]) = 0) =>
                 /\ pc'[n] = "enter"
                 /\ net' = net /\ peer_connections' = peer_connections
                 /\ replies_received'[n] = {}
          /\ (/\ pc[n] = "enter" /\ ~received_replies_event[n]
              /\ pc'[n] # "enter" /\ alive'[n]) =>
                 /\ state[n] = "WANTED" /\ state'[n] = "HELD"
                 /\ net' = net
          /\ (pc[n] = "cs" /\ pc'[n] # "cs" /\ alive'[n]) => state'[n] = "RELEASED"
      ]_vars

\* C18: a node of a cluster of several nodes is about to enter with no REPLY
\* asked for, every other peer being in dead_nodes
C18_Witness ==
    \E n \in Nodes :
      /\ alive[n] /\ Cardinality(peers) > 1
      /\ pc[n] = "enter" /\ ~received_replies_event[n]
      /\ dead_nodes[n] = Peers(n) /\ replies_received[n] = {}

\* C19 (as claimed): a node becomes HELD only from WANTED and only on a
\* decision of the current episode: the episode starts by clearing
\* replies_received and the signal, the signal is raised only by a step after
\* which |replies_received| >= |peers| - 1 - |dead_nodes| holds, and the entry
\* is decided only on that signal or on an expected count of 0 at the start.
C19_HeldOnlyOnCurrentEpisode ==
    [][\A n \in Nodes :
          /\ (state[n] # "HELD" /\ state'[n] = "HELD") =>
                 state[n] = "WANTED" /\ pc[n] = "enter"
          /\ (state[n] = "RELEASED" /\ state'[n] = "WANTED") =>
                 ~received_replies_event'[n] /\ replies_received'[n] = {}
          /\ (~received_replies_event[n] /\ received_replies_event'[n]) =>
                 Cardinality(replies_received'[n]) >= _expected_replies(dead_nodes'[n])
          /\ (pc[n] # "enter" /\ pc'[n] = "enter") =>
                 \/ /\ state[n] = "RELEASED"
                    /\ _expected_replies(dead_nodes[n]) = 0
                 \/ /\ pc[n] = "waiting" /\ state[n] = "WANTED"
                    /\ received_replies_event'[n]
      ]_vars

\* C19: a node is HELD in its second episode, entered on REPLY frames
C19_Witness ==
    \E n \in Nodes :
      /\ alive[n] /\ state[n] = "HELD" /\ shared_counter[n] = 2
      /\ received_replies_event[n] /\ replies_received[n] # {}

\* C20 (as claimed): a node that is RELEASED, outside the exit step, has no
\* deferred peer, after a successful episode and after a MUTEX_FAIL abort.
C20_ReleasedHasNoDeferred ==
    \A n \in Nodes :
        (alive[n] /\ state[n] = "RELEASED" /\ pc[n] = "idle") =>
            deferred_replies[n] = <<>>

\* C14 (as claimed): a send whose two attempts both fail puts the target in
\* dead_nodes and returns to its caller in every calling context: the step in
\* which a failed send marks a dead peer leaves no thread of the sender blocked
\* and mutex_lock as it was.
C14_FailedSendMarksDeadAndReturns ==
    [][\A n \in Nodes : \A p \in Peers(n) :
          (/\ alive[n] /\ alive'[n] /\ ~alive[p]
           /\ lamport_clock'[n] # lamport_clock[n]
           /\ p \notin dead_nodes[n] /\ p \in dead_nodes'[n]) =>
              /\ p \notin peer_connections'[n]
              /\ pc'[n] # "deadlock" /\ hbpc'[n] # "blocked"
              /\ mutex_lock'[n] = mutex_lock[n]
              /\ \A s \in Peers(n) :
                     hstate'[n][s].pc = "blocked" => hstate[n][s].pc = "blocked"
      ]_vars

\* The step completes the dispatch of a frame node d received from peer s:
\* the handler thread of that connection is back at its read.
DispatchCompletes(d, s) ==
    /\ alive[d] /\ alive'[d]
    /\ hstate'[d][s].pc = "idle"
    /\ \/ hstate[d][s].pc \in {"reply", "elect"}
       \/ /\ hstate[d][s].pc = "idle"
          /\ net[<<s, d>>] # <<>>
          /\ Len(net'[<<s, d>>]) < Len(net[<<s, d>>])

\* C13 (as claimed): when the dispatch of a frame from peer p completes, p is
\* not in the receiver's dead_nodes, unless a send to p failed, which only
\* happens when the process of p is gone.
C13_SenderAliveAfterDispatch ==
    [][\A d \in Nodes : \A s \in Peers(d) :
          (DispatchCompletes(d, s) /\ alive'[s]) => s \notin dead_nodes'[d]
      ]_vars

\* The step is the dispatch, by node d, of a frame of unknown type received
\* from peer s.
UnknownDispatched(d, s) ==
    /\ alive[d] /\ alive'[d]
    /\ hstate[d][s].pc = "idle" /\ link[<<s, d>>] = "open"
    /\ net[<<s, d>>] # <<>>
    /\ Head(net[<<s, d>>]).type \notin MessageType
    /\ net'[<<s, d>>] = Tail(net[<<s, d>>])

\* C15 (as claimed): a frame of unknown type is dropped: its dispatch changes
\* no mutex or election state of the receiver and leaves the connection it
\* arrived on open, so that the frames behind it are still dispatched.
C15_UnknownTypeKeepsConnection ==
    [][\A d \in Nodes : \A s \in Peers(d) :
          UnknownDispatched(d, s) =>
              /\ state'[d] = state[d] /\ request_clock'[d] = request_clock[d]
              /\ replies_received'[d] = replies_received[d]
              /\ deferred_replies'[d] = deferred_replies[d]
              /\ coordinator_id'[d] = coordinator_id[d]
              /\ in_progress'[d] = in_progress[d]
              /\ link'[<<s, d>>] = "open" /\ hstate'[d][s].pc = "idle"
      ]_vars

\* C16 (as claimed): once shutdown() has returned, no step of the node puts a
\* frame on any of its outbound connections or opens a connection.
C16_NoFrameAfterShutdown ==
    [][\A n \in Nodes :
          (alive[n] /\ alive'[n] /\ ~running[n]) =>
              /\ peer_connections'[n] \subseteq peer_connections[n]
              /\ \A p \in Peers(n) :
                     \/ net'[<<n, p>>] = net[<<n, p>>]
                     \/ Len(net'[<<n, p>>]) < Len(net[<<n, p>>])
      ]_vars

\* C17 (as claimed): a shutdown() call on a node that is already shut down
\* changes nothing: it logs no second shutdown event, closes nothing and
\* leaves every other variable as it was.
C17_ShutdownIdempotent ==
    [][\A n \in Nodes :
          (quota'.shutdown < quota.shutdown /\ ~running[n]) =>
              /\ shutdown_events'[n] = shutdown_events[n]
              /\ shutdown_events[n] = 1
              /\ ~running'[n]
              /\ peer_connections'[n] = peer_connections[n]
              /\ <<lamport_clock, net, dead_nodes, received_replies_event, link,
                   mutexVars, electVars, hstate>>' =
                 <<lamport_clock, net, dead_nodes, received_replies_event, link,
                   mutexVars, electVars, hstate>>
      ]_vars

\* C17: shutdown() has been called twice on one node, the other still running
C17_Witness ==
    \E n \in Nodes :
      /\ alive[n] /\ ~running[n] /\ quota.shutdown = 0
      /\ \A m \in peers \ {n} : running[m]

\* C12 (as claimed): once elections have settled, the coordinator every live
\* node holds is the largest node_id among the live nodes.
C12_CoordinatorIsHighestLive ==
    (Live # {} /\ Settled) =>
        \A n \in Live : \A m \in Live : coordinator_id[n] >= m

\* Node n is left without a coordinator for good: it is alone, knows no
\* coordinator, holds an election for in progress, and no thread, frame or
\* timer is left that would end that election or install a coordinator.
Stranded(n) ==
    /\ Live = {n}
    /\ coordinator_id[n] = None
    /\ in_progress[n]
    /\ ethreads[n] = NoThreads
    /\ hbpc[n] \in {"idle", "blocked"}
    /\ \A s \in Peers(n) :
          /\ net[<<s, n>>] = <<>>
          /\ hstate[n][s].pc \in {"idle", "blocked"}

\* C11 (as claimed, in the form a finite run refutes): while a node is live
\* the cluster can still reach the state in which one live node holds itself
\* for coordinator and the others agree; no live node is ever left for good
\* without a coordinator.
C11_NeverStranded == \A n \in Nodes : ~Stranded(n)

\* C21 (as claimed): in every reachable state each node's dead_nodes holds only
\* peers other than the node itself.
C21_DeadNodesExcludesSelf ==
    \A n \in Nodes : dead_nodes[n] \subseteq peers \ {n}

\* C22 (as claimed): whenever a node installs a coordinator, by becoming
\* coordinator, by a COORDINATOR frame or by adopting the sender of a HEARTBEAT,
\* in_progress is false immediately afterwards.
C22_InstallEndsRound ==
    [][\A n \in Nodes :
          (alive'[n] /\ coordinator_id'[n] # coordinator_id[n]
                     /\ coordinator_id'[n] # None) => ~in_progress'[n]]_vars

\* C23 (as claimed): a thread that acquires a lock holds only locks that come
\* before it in the order connection-pool lock, dead-nodes lock, mutex lock,
\* clock lock; in particular it does not hold the lock it acquires.
C23_LockOrder ==
    \A t \in Threads :
        (lockers[t].todo # <<>> /\ Head(lockers[t].todo).op = "acquire") =>
            \A i \in 1..Len(lockers[t].held) :
                LockRank(lockers[t].held[i]) < LockRank(Head(lockers[t].todo).lock)

\* C24: a HEARTBEAT addressed to a peer in dead_nodes is suppressed (no frame,
\* no connection, no tick) while frames of the other types are still attempted,
\* so that a turn of the coordinator's heartbeat loop sends HEARTBEAT to exactly
\* the peers not in dead_nodes.  In a step that is a turn of the heartbeat loop
\* of a coordinator n, nothing changes on the connections to the peers in
\* dead_nodes[n], every other peer has its HEARTBEAT attempted (the frame is on
\* the connection, or was written to a socket the peer has closed, or the send
\* failed and the peer is marked dead), and the clock has ticked once per
\* attempt; a node that becomes coordinator ticks its clock for the COORDINATOR
\* frame of every peer, the peers in dead_nodes included.
C24_HeartbeatSuppressed ==
    [][LET HeartbeatTurn(n) ==
               /\ alive[n] /\ coordinator_id[n] = n /\ hbpc[n] = "idle"
               /\ \A m \in Nodes \ {n} :
                     /\ lamport_clock'[m] = lamport_clock[m]
                     /\ dead_nodes'[m] = dead_nodes[m]
                     /\ \A p \in Nodes \ {m} : net'[<<m, p>>] = net[<<m, p>>]
           HeartbeatAttempted(n, p) ==
               \/ /\ net'[<<n, p>>] # <<>>
                  /\ net'[<<n, p>>][Len(net'[<<n, p>>])].type = "HEARTBEAT"
                  /\ net'[<<n, p>>][Len(net'[<<n, p>>])].timestamp > lamport_clock[n]
               \/ p \in peer_connections[n] /\ Link(link, p, n) = "closed"
               \/ p \in dead_nodes'[n]
       IN  /\ (quota'.beat < quota.beat) =>
                  \E n \in Nodes :
                      /\ HeartbeatTurn(n)
                      /\ \A p \in Peers(n) \cap dead_nodes[n] :
                            /\ net'[<<n, p>>] = net[<<n, p>>]
                            /\ p \in peer_connections'[n] => p \in peer_connections[n]
                            /\ p \in dead_nodes'[n]
                      /\ \A p \in Peers(n) \ dead_nodes[n] : HeartbeatAttempted(n, p)
                      /\ lamport_clock'[n] =
                             lamport_clock[n] + Cardinality(Peers(n) \ dead_nodes[n])
           /\ \A n \in Nodes :
                  (alive[n] /\ coordinator_id[n] # n /\ coordinator_id'[n] = n) =>
                      lamport_clock'[n] >= lamport_clock[n] + Cardinality(Peers(n))]_vars

\* A heartbeat was the last thing coordinator n sent, it went to p, and the
\* peer q that follows p in the peers table is marked dead: the turn skipped q.
C24_Witness ==
    \E n \in Nodes : \E p, q \in Peers(n) :
        /\ alive[n] /\ coordinator_id[n] = n
        /\ p < q /\ q \in dead_nodes[n] /\ p \notin dead_nodes[n]
        /\ net[<<n, p>>] # <<>>
        /\ net[<<n, p>>][Len(net[<<n, p>>])].type = "HEARTBEAT"
        /\ net[<<n, p>>][Len(net[<<n, p>>])].timestamp = lamport_clock[n]


\* C25: on every inbound ELECTION(sender) the receiver sends ANSWER to the
\* sender, whether or not it is the coordinator.  In a step in which a live
\* node d reads an ELECTION frame of a sender s it can reach, an ANSWER frame
\* stamped later than d's clock before the step is on the connection to s.
C25_ElectionAlwaysAnswered ==
    [][\A d \in Nodes : \A s \in Peers(d) :
          (/\ alive[d] /\ alive'[d]
           /\ net[<<s, d>>] # <<>>
           /\ Head(net[<<s, d>>]).type = "ELECTION"
           /\ net'[<<s, d>>] = Tail(net[<<s, d>>])
           /\ alive[s] /\ running[s]
           /\ ~(s \in peer_connections[d] /\ Link(link, s, d) = "closed"))
          => \E i \in 1..Len(net'[<<d, s>>]) :
                 /\ net'[<<d, s>>][i].type = "ANSWER"
                 /\ net'[<<d, s>>][i].timestamp > lamport_clock[d]]_vars


\* C26: when the first deadline of a round fires with the round in progress,
\* the node becomes coordinator if no ANSWER was received and otherwise waits
\* once more; when the second deadline fires with the round still in progress
\* the node restarts the election; and a node that received an ANSWER never
\* becomes coordinator in that round: no step makes a node coordinator out of
\* a round in progress in which an ANSWER was received.
C26_DeadlineRule ==
    [][\A n \in Nodes :
          /\ (/\ alive[n] /\ alive'[n] /\ in_progress[n]
              /\ ethreads'[n].wait1 < ethreads[n].wait1)
             => IF received_answer[n]
                THEN /\ ethreads'[n].wait2 = ethreads[n].wait2 + 1
                     /\ coordinator_id'[n] = coordinator_id[n]
                     /\ in_progress'[n]
                ELSE coordinator_id'[n] = n /\ ~in_progress'[n]
          /\ (/\ alive[n] /\ alive'[n] /\ in_progress[n]
              /\ ethreads'[n].wait2 < ethreads[n].wait2)
             => /\ ethreads'[n].sleep = ethreads[n].sleep + 1
                /\ coordinator_id'[n] = coordinator_id[n]
          /\ (/\ alive[n] /\ alive'[n] /\ in_progress[n] /\ received_answer[n]
              /\ coordinator_id[n] # n)
             => coordinator_id'[n] # n]_vars


\* C27: for every inbound frame with timestamp t, Update(t) is applied before
\* the type handler runs, so every frame the handler sends in response has a
\* timestamp above t and every request_clock the receiver captures afterwards
\* is above t.  In a step in which a node d reads a frame stamped t, d's clock
\* ends above t and every frame the step puts on d's connections is stamped
\* above t; the clock of a live node never goes back; and a request_clock is
\* captured above the clock it is taken from.
C27_UpdateBeforeHandler ==
    [][\A d \in Nodes :
          /\ \A s \in Peers(d) :
                (/\ alive[d] /\ alive'[d]
                 /\ net[<<s, d>>] # <<>>
                 /\ net'[<<s, d>>] = Tail(net[<<s, d>>]))
                => LET t == Head(net[<<s, d>>]).timestamp
                   IN  /\ lamport_clock'[d] > t
                       /\ \A x \in Peers(d) : \A i \in 1..Len(net'[<<d, x>>]) :
                              (\/ i > Len(net[<<d, x>>])
                               \/ net'[<<d, x>>][i] # net[<<d, x>>][i])
                              => net'[<<d, x>>][i].timestamp > t
          /\ (alive[d] /\ alive'[d]) => lamport_clock'[d] >= lamport_clock[d]
          /\ (alive'[d] /\ request_clock'[d] # request_clock[d])
             => request_clock'[d] > lamport_clock[d]]_vars

\* Node d has answered a frame stamped above its own clock: its ANSWER, the
\* last thing it stamped, is two ticks above the clock of the sender s, whose
\* ELECTION carried that clock.
C27_Witness ==
    \E d \in Nodes : \E s \in Peers(d) :
        /\ alive[d] /\ alive[s] /\ in_progress[s]
        /\ net[<<d, s>>] # <<>>
        /\ Head(net[<<d, s>>]).type = "ANSWER"
        /\ Head(net[<<d, s>>]).timestamp = lamport_clock[d]
        /\ lamport_clock[d] = lamport_clock[s] + 2


\* C28: at most one election round is active per node at any time.  A
\* start_election called on a node whose round is in progress starts no thread
\* and sends nothing, and no step starts a round (election threads of the node
\* changed, ELECTION_START stamped) on a node whose round is in progress, so
\* that two racing triggers start one round only.
C28_OneRoundPerNode ==
    [][\A n \in Nodes :
          /\ (quota'.elect < quota.elect /\ in_progress[n])
             => /\ ethreads'[n] = ethreads[n]
                /\ \A p \in Peers(n) : net'[<<n, p>>] = net[<<n, p>>]
          /\ (/\ quota'.round < quota.round
              /\ alive[n]
              /\ lamport_clock'[n] # lamport_clock[n])
             => ~in_progress[n]]_vars


\* C29: a round started when no peer with a higher id is outside dead_nodes
\* makes the node coordinator at once.  In a step in which node n starts a
\* round with no higher peer outside dead_nodes[n], n ends with coordinator_id
\* = n and in_progress = false; a COORDINATOR frame is attempted to every
\* other peer, those in dead_nodes included (the clock ticks for the two log
\* lines and once per peer; the frame is on the connection of every peer that
\* can be reached, and a peer that cannot is marked dead); and no ELECTION
\* frame is put on any connection.
C29_CoordinatorAtOnce ==
    [][\A n \in Nodes :
          (/\ quota'.round < quota.round
           /\ alive[n]
           /\ lamport_clock'[n] # lamport_clock[n]
           /\ higher_nodes(n, dead_nodes[n]) = {})
          => /\ coordinator_id'[n] = n
             /\ ~in_progress'[n]
             /\ lamport_clock'[n] = lamport_clock[n] + 2 + Cardinality(Peers(n))
             /\ \A p \in Peers(n) :
                   /\ \/ /\ net'[<<n, p>>] # <<>>
                         /\ net'[<<n, p>>][Len(net'[<<n, p>>])].type = "COORDINATOR"
                         /\ net'[<<n, p>>][Len(net'[<<n, p>>])].timestamp > lamport_clock[n]
                      \/ p \in peer_connections[n] /\ Link(link, p, n) = "closed"
                      \/ ~(alive[p] /\ running[p]) /\ p \in dead_nodes'[n]
                   /\ \A i \in 1..Len(net'[<<n, p>>]) :
                          net'[<<n, p>>][i].type = "ELECTION" =>
                              /\ i <= Len(net[<<n, p>>])
                              /\ net'[<<n, p>>][i] = net[<<n, p>>][i]]_vars

\* Node n is coordinator with no higher peer outside dead_nodes; its
\* COORDINATOR frame to the live peer q is in flight and its clock has ticked
\* once more since, for the frame of the dead peer p that follows q.
C29_Witness ==
    \E n \in Nodes : \E q, p \in Peers(n) :
        /\ alive[n] /\ coordinator_id[n] = n /\ ~in_progress[n]
        /\ higher_nodes(n, dead_nodes[n]) = {}
        /\ q < p /\ alive[q] /\ ~alive[p] /\ p \in dead_nodes[n]
        /\ net[<<n, q>>] # <<>>
        /\ net[<<n, q>>][Len(net[<<n, q>>])].type = "COORDINATOR"
        /\ lamport_clock[n] = net[<<n, q>>][Len(net[<<n, q>>])].timestamp + 1


C31_WatchdogFiresOnFollower ==
    [][\A n \in Nodes :
          (alive[n] /\ alive'[n] /\ hbpc[n] = "timedout" /\ hbpc'[n] # "timedout")
          => /\ coordinator_id[n] \in Peers(n)
             /\ dead_nodes'[n] = dead_nodes[n] \cup {coordinator_id[n]}
             /\ coordinator_id'[n] = None
             /\ in_progress[n] \/ hbpc'[n] = "elect"]_vars


\* C32: an inbound HEARTBEAT from the coordinator the node knows refreshes
\* last_heartbeat and changes nothing else of the election state; one received
\* while coordinator_id is unset installs the sender as coordinator; one from
\* any other sender leaves the election state unchanged.
C32_HeartbeatEffect ==
    [][\A d \in Nodes : \A s \in Peers(d) :
          (/\ alive[d] /\ alive'[d]
           /\ net[<<s, d>>] # <<>>
           /\ Head(net[<<s, d>>]).type = "HEARTBEAT"
           /\ net'[<<s, d>>] = Tail(net[<<s, d>>]))
          => LET sender == Head(net[<<s, d>>]).sender
             IN  /\ in_progress'[d] = in_progress[d]
                 /\ received_answer'[d] = received_answer[d]
                 /\ ethreads'[d] = ethreads[d]
                 /\ hbpc'[d] = hbpc[d]
                 /\ leader_update_logged'[d] = leader_update_logged[d]
                 /\ IF coordinator_id[d] = sender
                    THEN hb_fresh'[d] /\ coordinator_id'[d] = sender
                    ELSE IF coordinator_id[d] = None
                    THEN hb_fresh'[d] = hb_fresh[d] /\ coordinator_id'[d] = sender
                    ELSE hb_fresh'[d] = hb_fresh[d]
                         /\ coordinator_id'[d] = coordinator_id[d]]_vars

\* Node d follows the coordinator s, whose heartbeat it has read: a heartbeat
\* was sent, d's last_heartbeat had gone overdue and is fresh again, and no
\* round is in progress on d.
C32_Witness ==
    \E d \in Nodes : \E s \in Peers(d) :
        /\ alive[d] /\ alive[s]
        /\ coordinator_id[d] = s /\ coordinator_id[s] = s
        /\ hb_fresh[d] /\ ~in_progress[d] /\ hbpc[d] = "idle"
        /\ net[<<s, d>>] = <<>>
        /\ quota.beat < ElectionBeats /\ quota.stale < ElectionStales
        /\ Cardinality(peers) = 3


\* C33: an uncontended Request() in an N-node cluster with no peer in
\* dead_nodes puts exactly N-1 REQUEST frames and N-1 REPLY frames on the
\* wire, one of each per peer, and the requester enters after the last REPLY.
\* While one Request() is all that has happened (no other Request(), no crash,
\* no timeout), every peer p of the requester n is at exactly one place of the
\* exchange once its REQUEST was sent (the REQUEST in flight, p's handler
\* about to reply, the REPLY in flight, or p in replies_received) and at none
\* before, and n is HELD only with every peer in replies_received.
C33_UncontendedMessageCount ==
    (/\ quota.req = ReqQuota(peers) - 1
     /\ quota.crash = MaxCrashes
     /\ quota.timeout = ReqQuota(peers))
    => \A n \in Nodes : \A p \in Peers(n) :
           LET Count(q, T) == Cardinality({i \in 1..Len(q) : q[i].type = T})
               sent == /\ request_clock[n] # 0
                       /\ pc[n] # "snapshot"
                       /\ ~(pc[n] = "sending" /\ p \in toSend[n])
           IN  /\ Count(net[<<n, p>>], "REQUEST")
                    + (IF hstate[p][n].pc = "reply" THEN 1 ELSE 0)
                    + Count(net[<<p, n>>], "REPLY")
                    + (IF p \in replies_received[n] THEN 1 ELSE 0)
                  = IF sent THEN 1 ELSE 0
               /\ state[n] = "HELD" => p \in replies_received[n]

\* The only requester of a three-node cluster holds the critical section with
\* both peers in replies_received and no frame left in flight.
C33_Witness ==
    \E n \in Nodes :
        /\ peers = Nodes /\ Cardinality(Nodes) = 3
        /\ quota.req = ReqQuota(peers) - 1
        /\ quota.crash = MaxCrashes /\ quota.timeout = ReqQuota(peers)
        /\ state[n] = "HELD"
        /\ replies_received[n] = Peers(n)
        /\ \A c \in Chan : net[c] = <<>>


\* C34: the critical-section action runs exactly once per successful
\* Request() episode and not at all in an aborted or no-op one.  In every
\* step of a node that stays alive, shared_counter grows by exactly 1 if the
\* step takes the node to HELD and is unchanged otherwise, and the node gets
\* to HELD from WANTED only.
C34_CounterOncePerEpisode ==
    [][\A n \in Nodes :
          (alive[n] /\ alive'[n])
          => IF state[n] # "HELD" /\ state'[n] = "HELD"
             THEN shared_counter'[n] = shared_counter[n] + 1 /\ state[n] = "WANTED"
             ELSE shared_counter'[n] = shared_counter[n]]_vars

\* Node n is HELD in its second successful episode, its counter is 2, and
\* more Request() calls than that were made in the cluster.
C34_Witness ==
    \E n \in Nodes :
        /\ alive[n] /\ state[n] = "HELD"
        /\ shared_counter[n] = 2
        /\ quota.req < ReqQuota(peers) - 2


\* C35: a peer p that cannot be reached when the requester n sends its REQUEST
\* is in dead_nodes before the wait starts and does not count toward the
\* replies the episode needs.  In a step of the REQUEST loop whose target p is
\* not running, p ends in dead_nodes[n], the thread goes on, and the "enough
\* replies" condition has been evaluated again: the event is set if the
\* replies received cover the peers left outside dead_nodes, so that the wait
\* ends without its timeout.
C35_UnreachablePeerNotAwaited ==
    [][\A n \in Nodes : \A p \in Peers(n) :
          (/\ alive[n] /\ alive'[n]
           /\ pc[n] = "sending" /\ p \in toSend[n] /\ p \notin toSend'[n]
           /\ ~alive[p])
          => /\ p \in dead_nodes'[n]
             /\ pc'[n] \in {"sending", "waiting"}
             /\ (Cardinality(replies_received'[n]) >= _expected_replies(dead_nodes'[n]))
                => received_replies_event'[n]]_vars


\* C36: a node enters HELD only when every other peer is individually
\* accounted for.  In a step that takes node n to HELD, each peer other than n
\* is in replies_received[n] or in dead_nodes[n].
C36_EveryPeerAccountedFor ==
    [][\A n \in Nodes :
          (alive[n] /\ alive'[n] /\ state[n] # "HELD" /\ state'[n] = "HELD")
          => \A p \in Peers(n) :
                 p \in replies_received[n] \/ p \in dead_nodes[n]]_vars


\* C37: every peer id in replies_received during a WANTED episode got there
\* through a REPLY that answers that episode's REQUEST.  In a step in which a
\* WANTED node d reads a REPLY of s that answers a REQUEST of another episode
\* (the REQUEST carried another request_clock), s is not added to
\* replies_received[d].
C37_OnlyRepliesOfTheEpisode ==
    [][\A d \in Nodes : \A s \in Peers(d) :
          (/\ alive[d] /\ alive'[d]
           /\ state[d] = "WANTED"
           /\ net[<<s, d>>] # <<>>
           /\ Head(net[<<s, d>>]).type = "REPLY"
           /\ Head(net[<<s, d>>]).rc # request_clock[d]
           /\ net'[<<s, d>>] = Tail(net[<<s, d>>])
           /\ s \notin replies_received[d])
          => s \notin replies_received'[d]]_vars


\* C38: a deadline task created by one election round acts only on that
\* round.  Deadline tasks sleep the same time, so of two that wait for their
\* first deadline the earlier round's fires first, and a task that reaches its
\* second deadline while another still waits for its first belongs to an
\* earlier round than that one.  In a step in which such an earlier task
\* fires on a node whose round is in progress, the node does not become
\* coordinator, no second wait is started and the election is not restarted.
C38_DeadlineActsOnOwnRound ==
    [][\A n \in Nodes :
          /\ (/\ alive[n] /\ alive'[n] /\ in_progress[n]
              /\ ethreads[n].wait1 >= 2
              /\ ethreads'[n].wait1 < ethreads[n].wait1)
             => /\ coordinator_id'[n] = coordinator_id[n]
                /\ in_progress'[n]
                /\ ethreads'[n].wait2 = ethreads[n].wait2
          /\ (/\ alive[n] /\ alive'[n] /\ in_progress[n]
              /\ ethreads[n].wait1 >= 1
              /\ ethreads'[n].wait2 < ethreads[n].wait2)
             => /\ in_progress'[n]
                /\ ethreads'[n].sleep = ethreads[n].sleep]_vars


\* C39: two nodes that are both WANTED never hold each other's REQUEST
\* deferred: in no reachable state is a in deferred_replies of b and b in
\* deferred_replies of a while both are WANTED.
C39_NoMutualDeferral ==
    \A a \in Nodes : \A b \in Nodes \ {a} :
        ~ /\ alive[a] /\ alive[b]
          /\ state[a] = "WANTED" /\ state[b] = "WANTED"
          /\ b \in Range(deferred_replies[a])
          /\ a \in Range(deferred_replies[b])


\* C40: a REQUEST deferred while the node was WANTED or HELD is answered when
\* the episode ends, by leaving the critical section or by the MUTEX_FAIL
\* abort: the step that takes a running node from WANTED or HELD back to
\* RELEASED puts a REPLY on the channel to every running peer it had deferred.
C40_DeferredAnsweredAtEpisodeEnd ==
    [][\A n \in Nodes : \A p \in Peers(n) :
          LET Replies(q) == Cardinality({i \in 1..Len(q) : q[i].type = "REPLY"})
          IN  (/\ alive[n] /\ alive'[n] /\ alive[p] /\ alive'[p]
               /\ state[n] \in {"WANTED", "HELD"} /\ state'[n] = "RELEASED"
               /\ p \in Range(deferred_replies[n]))
              => Replies(net'[<<n, p>>]) > Replies(net[<<n, p>>])]_vars

====
